---- MODULE Spec2Model ----
(***************************************************************************)
(* Chat / messaging subsystem of ads-platform-backend.                     *)
(*                                                                         *)
(* State: the `chats` and `messages` collections, the indexes of the       *)
(* `chats` collection, the server clock, the requests in flight (one       *)
(* record per request slot, holding the handler's locals and its position  *)
(* between two awaits) and the last response sent.                         *)
(*                                                                         *)
(* Every await on the storage layer is one atomic step; what a handler     *)
(* does between two awaits belongs to the step of the later await.         *)
(***************************************************************************)
EXTENDS Integers, Sequences, FiniteSets, TLC

VARIABLES chats, messages, indexes, nextChatId, nextMsgId, now, proc, lastResp,
          deleted, hook, users

vars == <<chats, messages, indexes, nextChatId, nextMsgId, now, proc, lastResp,
          deleted, hook, users>>

\* the state of the chat handlers and scripts
chatVars == <<chats, messages, indexes, nextChatId, nextMsgId, now, proc,
              lastResp, deleted>>

(***************************************************************************)
(* Bounds of the model.                                                    *)
(***************************************************************************)
NProcs == 2
MaxChats == 2
MaxMsgs == 2
MaxTime == 0
\* the clock readings where the order of the chat list is observed
MaxClock == 1

Procs == 1..NProcs

\* A specification is bounded by a record b: requests in flight (procs), chats
\* and messages ever created, clock readings (time), the start requests made
\* (starts) and whether requests carry the long message texts (long).

\* new Date() / the timestamps option: a reading of the server clock, which never
\* runs backwards
ClockReadings(b) == {t \in 0..b.time : now <= t /\ t <= now + 1}

(***************************************************************************)
(* Identifiers.  A string is the sequence of its code units; an ObjectId   *)
(* is written as its toString(), a lower-case hex string of fixed length   *)
(* (two digits here, twenty-four in the program).                          *)
(***************************************************************************)
UserA == <<48, 97>>   \* "0a"
UserB == <<97, 48>>   \* "a0"
UserC == <<97, 97>>   \* "aa"
Users == {UserA, UserB, UserC}

\* getReqUserId(req) of a request that carries no user: null
NoUser == <<>>
Callers == Users \cup {NoUser}
IdLen == Len(UserA)

NoId == 0
BadId == -1
ChatIds == 1..MaxChats
MsgIds == 1..MaxMsgs

\* request parameter :id of the chat routes: a stored or unknown id, or a malformed one
ChatIdParams == ChatIds \cup {BadId}

\* the start requests made, <<caller, req.body.receiverId>>: both directions of
\* one pair, a second pair, every caller with a spelling of its own id (as it
\* is, in upper case, with blanks around it), and the rejected inputs "", "  ",
\* "null" and "zz", and a request without user
StartRequests ==
  {<<UserA, <<97, 48>>>>, <<UserB, <<48, 65>>>>, <<UserC, <<32, 97, 48, 32>>>>,
   <<UserA, <<48, 97>>>>, <<UserB, <<65, 48>>>>, <<UserC, <<32, 97, 97>>>>,
   <<UserA, <<>>>>, <<UserA, <<32, 32>>>>, <<UserB, <<110, 117, 108, 108>>>>,
   <<UserC, <<122, 122>>>>, <<NoUser, <<97, 48>>>>}

\* message texts: lead/trail blanks around a body of `body` characters
MaxTextLength == 2000
NoText == [lead |-> 0, body |-> 0, trail |-> 0]
ShortTexts == {[lead |-> 1, body |-> 0, trail |-> 1],
               [lead |-> 1, body |-> 1, trail |-> 1]}
LongTexts == {NoText,
              [lead |-> 0, body |-> 1, trail |-> 0],
              [lead |-> 1, body |-> MaxTextLength, trail |-> 1],
              [lead |-> 0, body |-> MaxTextLength + 1, trail |-> 0]}
Texts == ShortTexts \cup LongTexts
TextsOf(b) == IF b.long THEN Texts ELSE ShortTexts

\* String.prototype.trim
Trim(t) == [lead |-> 0, body |-> t.body, trail |-> 0]
TextLength(t) == t.lead + t.body + t.trail

(***************************************************************************)
(* String comparison as Array.prototype.sort() does it without comparator: *)
(* by code unit, left to right.                                            *)
(***************************************************************************)
RECURSIVE StrLess(_, _)
StrLess(a, b) ==
  IF b = <<>> THEN FALSE
  ELSE IF a = <<>> THEN TRUE
  ELSE IF Head(a) # Head(b) THEN Head(a) < Head(b)
  ELSE StrLess(Tail(a), Tail(b))

\* the pair left in the order given
SortPair_Unsorted(x, y) == <<x, y>>

\* [x, y].sort()
SortPair(x, y) == IF StrLess(y, x) THEN <<y, x>> ELSE <<x, y>>

Range(s) == {s[i] : i \in DOMAIN s}

(***************************************************************************)
(* Responses.                                                              *)
(***************************************************************************)
\* lastResp is the response sent by the step just taken (NoResp: none was sent)
\* op: the operation answered; status: the HTTP status; message: the message of
\* the body; chat: the _id of the chat returned; msgs: the messages returned;
\* count: the count returned; chats: the chats returned by the chat list
NoResp == [op |-> "none", status |-> 0, message |-> "", chat |-> NoId, msgs |-> <<>>,
           count |-> 0, chats |-> <<>>]

Resp(op, status, message) ==
  [NoResp EXCEPT !.op = op, !.status = status, !.message = message]

\* error handed to next() that is no AppError: answered by the error middleware
ErrorStatus == 500

\* a request slot: the handler's position and its locals (receiverId,
\* text.trim(), the created message, the messages read, deletedCount, the chats
\* read)
Idle == [pc |-> "idle", user |-> <<>>, cid |-> NoId,
         rcv |-> <<>>, text |-> NoText, msg |-> NoId, msgs |-> <<>>, n |-> 0,
         list |-> <<>>]

(***************************************************************************)
(* models/Chat.js                                                          *)
(***************************************************************************)
\* String.prototype.trim
RECURSIVE TrimLeft(_)
TrimLeft(str) == IF str # <<>> /\ Head(str) = 32 THEN TrimLeft(Tail(str)) ELSE str

RECURSIVE TrimRight(_)
TrimRight(str) ==
  IF str # <<>> /\ str[Len(str)] = 32 THEN TrimRight(SubSeq(str, 1, Len(str) - 1))
  ELSE str

TrimStr(str) == TrimRight(TrimLeft(str))

IsHexDigit(c) == c \in (48..57) \cup (65..70) \cup (97..102)

\* mongoose.Types.ObjectId.isValid of a string
IsValidObjectId(str) == Len(str) = IdLen /\ \A i \in DOMAIN str : IsHexDigit(str[i])

\* the string compared as it was sent
ParseObjectId_Raw(str) == str

\* new mongoose.Types.ObjectId(str).toString(): the hex digits in lower case
ParseObjectId(str) == [i \in DOMAIN str |-> IF str[i] \in 65..70 THEN str[i] + 32 ELSE str[i]]

\* the checks of startChat before it converts receiverId: the message of the
\* 400 response, "" = accepted
ReceiverIdError(raw) ==
  IF raw = <<>> \/ TrimStr(raw) = <<>> \/ raw = <<110, 117, 108, 108>>
    THEN "receiverId is required and must be a non-empty string"
  ELSE IF ~IsValidObjectId(TrimStr(raw)) THEN "Invalid receiverId format"
  ELSE ""

\* pre('validate') hook: the document with sorted participants and user1/user2,
\* or ok = FALSE for a ValidationError
PreValidate(parts) ==
  IF Len(parts) # 2
    THEN [ok |-> FALSE, participants |-> parts, user1 |-> <<>>, user2 |-> <<>>]
  ELSE IF \E i \in 1..2 : ~IsValidObjectId(TrimStr(parts[i]))
    THEN [ok |-> FALSE, participants |-> parts, user1 |-> <<>>, user2 |-> <<>>]
  ELSE LET sorted == SortPair(TrimStr(parts[1]), TrimStr(parts[2]))
       IN IF sorted[1] = sorted[2]
            THEN [ok |-> FALSE, participants |-> parts, user1 |-> <<>>, user2 |-> <<>>]
            ELSE [ok |-> TRUE, participants |-> sorted,
                  user1 |-> sorted[1], user2 |-> sorted[2]]

\* pre('save') hook
PreSave(doc) ==
  IF Len(doc.participants) = 2
    THEN LET sorted == SortPair(doc.participants[1], doc.participants[2])
         IN [doc EXCEPT !.participants = sorted, !.user1 = sorted[1],
                        !.user2 = sorted[2]]
    ELSE doc

\* an insert is rejected with E11000 when a unique index on {user1, user2} exists
\* and a stored chat has the same key
DuplicateKey(doc) ==
  \E ix \in indexes :
    /\ ix.unique
    /\ ix.keys = <<"user1", "user2">>
    /\ \E c \in chats : c.user1 = doc.user1 /\ c.user2 = doc.user2

\* the stored document: _id, the hooks' fields, lastMessage default null, timestamps
NewChat(id, doc, t) ==
  [id |-> id, participants |-> doc.participants, user1 |-> doc.user1,
   user2 |-> doc.user2, lastMessage |-> NoId, updatedAt |-> t]

ChatsOfPair(a, b) == {c \in chats : {c.user1, c.user2} = {a, b}}

\* ---------------------------------------------------------------------
\* State of a webhook call (services/makeWebhook.service.js)
\* ---------------------------------------------------------------------

\* null / undefined status of a result that carries no response
NoStatus == 0
\* null, the empty string: a text of no words
Null == <<>>
NoError == [name |-> "", message |-> Null, code |-> ""]

\* no call in progress
HookIdle == [fn |-> "none", pc |-> "idle", attempt |-> 0, elapsed |-> 0,
             timers |-> {}, fetches |-> 0, lastError |-> NoError,
             status |-> NoStatus, result |-> [ok |-> FALSE]]

\* ---------------------------------------------------------------------
\* State of the users collection and of a user document in memory
\* (models/User.js)
\* ---------------------------------------------------------------------

\* a path that is not set, or not selected
Unset == <<>>

\* no user stored, no document in memory, no call made on the model
NoUsers == [stored |-> [exists |-> FALSE, password |-> Unset, name |-> Unset],
            doc |-> [state |-> "none", password |-> Unset, name |-> Unset,
                     modified |-> {}],
            result |-> "none"]

TypeOK ==
  /\ nextChatId \in 1..(MaxChats + 1)
  /\ nextMsgId \in 1..(MaxMsgs + 1)
  /\ now \in Nat
  /\ \A c \in chats : c.id \in ChatIds
  /\ \A m \in messages : m.id \in MsgIds
  /\ \A m \in messages : m.text.body \in 1..MaxTextLength
  /\ \A p \in Procs :
       proc[p].pc \in {"idle", "gc_count", "gm_list", "gm_mark", "sm_create",
                       "sm_update", "dc_msgs", "dc_chat"}
  /\ hook.pc \in {"idle", "fetch", "text", "backoff", "returned"}

Init ==
  /\ chats = {}
  /\ messages = {}
  /\ indexes = {}
  /\ nextChatId = 1
  /\ nextMsgId = 1
  /\ now = 0
  /\ proc = [p \in Procs |-> Idle]
  /\ lastResp = NoResp
  /\ deleted = {}
  /\ hook = HookIdle
  /\ users = NoUsers

(***************************************************************************)
(* POST /api/chats/start                                                   *)
(***************************************************************************)
StartChat(u, raw, b) ==
  /\ UNCHANGED <<hook, users>>
  /\ UNCHANGED <<messages, indexes, nextMsgId, proc, deleted>>
  /\ IF u = NoUser
       THEN /\ lastResp' = Resp("start", 401, "Authentication required")
            /\ UNCHANGED <<chats, nextChatId, now>>
     ELSE IF ReceiverIdError(raw) # ""
       THEN /\ lastResp' = Resp("start", 400, ReceiverIdError(raw))
            /\ UNCHANGED <<chats, nextChatId, now>>
     ELSE IF ParseObjectId(TrimStr(raw)) = u
       THEN /\ lastResp' = Resp("start", 400, "Cannot start chat with yourself")
            /\ UNCHANGED <<chats, nextChatId, now>>
     ELSE
       LET pair == SortPair(u, ParseObjectId(TrimStr(raw)))
           v == PreValidate(pair)
       IN IF ~v.ok
            THEN /\ lastResp' = Resp("start", 400, "Validation failed")
                 /\ UNCHANGED <<chats, nextChatId, now>>
          ELSE IF DuplicateKey(PreSave(v))
            THEN /\ lastResp' = Resp("start", ErrorStatus, "E11000 duplicate key error")
                 /\ UNCHANGED <<chats, nextChatId, now>>
          ELSE /\ nextChatId <= b.chats
               /\ \E t \in ClockReadings(b) :
                    /\ now' = t
                    /\ chats' = chats \cup {NewChat(nextChatId, PreSave(v), t)}
               /\ nextChatId' = nextChatId + 1
               /\ lastResp' = [Resp("start", 201, "Chat created") EXCEPT !.chat = nextChatId]

(***************************************************************************)
(* The earlier startChat: find the chat of the two users or create it from *)
(* the participants alone, stored as the schema without user1/user2 stored *)
(* it.                                                                     *)
(***************************************************************************)
LegacyStartChat(u, v, b) ==
  /\ UNCHANGED <<hook, users>>
  /\ UNCHANGED <<messages, indexes, nextMsgId, proc, deleted>>
  /\ LET existing == {c \in chats : Len(c.participants) = 2
                                    /\ Range(c.participants) = {u, v}}
         doc == [participants |-> <<u, v>>, user1 |-> <<>>, user2 |-> <<>>]
     IN IF u = v
          THEN /\ lastResp' = Resp("start", 400, "Cannot start chat with yourself")
               /\ UNCHANGED <<chats, nextChatId, now>>
        ELSE IF existing # {}
          THEN /\ \E c \in existing :
                    lastResp' = [Resp("start", 200, "") EXCEPT !.chat = c.id]
               /\ UNCHANGED <<chats, nextChatId, now>>
        ELSE IF DuplicateKey(doc)
          THEN /\ lastResp' = Resp("start", ErrorStatus, "E11000 duplicate key error")
               /\ UNCHANGED <<chats, nextChatId, now>>
        ELSE /\ nextChatId <= b.chats
             /\ \E t \in ClockReadings(b) :
                  /\ now' = t
                  /\ chats' = chats \cup {NewChat(nextChatId, doc, t)}
             /\ nextChatId' = nextChatId + 1
             /\ lastResp' = [Resp("start", 201, "") EXCEPT !.chat = nextChatId]

(***************************************************************************)
(* Helpers of the message handlers.                                        *)
(***************************************************************************)
\* Chat.findById: the set holding the chat, or the empty set
FindById(cid) == {c \in chats : c.id = cid}

\* the comparison inverted: some participant is another user
IsParticipant_Neq(parts, u) == \E i \in DOMAIN parts : parts[i] # u

\* only the first participant compared
IsParticipant_First(parts, u) == parts # <<>> /\ parts[1] = u

\* chat.participants.some(p => p.toString() === userId.toString())
IsParticipant(parts, u) == \E i \in DOMAIN parts : parts[i] = u

\* the first participant, whoever calls
FindOther_First(parts, u) == IF parts # <<>> THEN parts[1] ELSE <<>>

\* chat.participants.find(p => p.toString() !== userId.toString()); <<>> = undefined
FindOther(parts, u) ==
  IF \E i \in DOMAIN parts : parts[i] # u
    THEN parts[CHOOSE i \in DOMAIN parts :
                 /\ parts[i] # u
                 /\ \A j \in DOMAIN parts : parts[j] # u => i <= j]
    ELSE <<>>

\* the length check with >= in place of >
TextError_OffByOne(t) ==
  IF TextLength(t) = 0 \/ TextLength(Trim(t)) = 0 THEN "Message text is required"
  ELSE IF TextLength(Trim(t)) >= MaxTextLength
    THEN "Message text cannot exceed 2000 characters"
  ELSE ""

\* !text || text.trim().length === 0, then text.trim().length > 2000: the message
\* of the 400 response, "" = accepted
TextError(t) ==
  IF TextLength(t) = 0 \/ TextLength(Trim(t)) = 0 THEN "Message text is required"
  ELSE IF TextLength(Trim(t)) > MaxTextLength
    THEN "Message text cannot exceed 2000 characters"
  ELSE ""

\* every stored message, whatever its chat
MessagesOf_All(cid) == messages

\* the filter {chat: cid} on the messages
MessagesOf(cid) == {m \in messages : m.chat = cid}

\* Message.find({chat}).sort({createdAt: 1}): every order of the chat's messages
\* that is ascending in createdAt (the order of equal keys is not specified)
SortedByCreatedAt(S) ==
  {s \in [1..Cardinality(S) -> S] :
     /\ \A i, j \in DOMAIN s : i # j => s[i] # s[j]
     /\ \A i, j \in DOMAIN s : i < j => s[i].createdAt <= s[j].createdAt}

\* mark-read that flips the flag of every message of the chat to u
MarkReadOf_Toggle(ms, cid, u) ==
  {IF m.chat = cid /\ m.receiver = u
     THEN [m EXCEPT !.isRead = ~m.isRead] ELSE m : m \in ms}

\* mark-read that removes the messages it should mark
MarkReadOf_Drop(ms, cid, u) ==
  {m \in ms : ~(m.chat = cid /\ m.receiver = u /\ ~m.isRead)}

\* mark-read that stops after the first unread message of the chat to u
MarkReadOf_One(ms, cid, u) ==
  LET unread == {m \in ms : m.chat = cid /\ m.receiver = u /\ ~m.isRead}
  IN {IF m \in unread /\ \A n \in unread : m.id <= n.id
        THEN [m EXCEPT !.isRead = TRUE] ELSE m : m \in ms}

\* mark-read that takes every chat's messages to u
MarkReadOf_AnyChat(ms, cid, u) ==
  {IF m.receiver = u /\ ~m.isRead
     THEN [m EXCEPT !.isRead = TRUE] ELSE m : m \in ms}

\* Message.updateMany({chat, receiver, isRead: false}, {$set: {isRead: true}})
\* on the collection ms
MarkReadOf(ms, cid, u) ==
  {IF m.chat = cid /\ m.receiver = u /\ ~m.isRead
     THEN [m EXCEPT !.isRead = TRUE] ELSE m : m \in ms}

MarkRead(cid, u) == MarkReadOf(messages, cid, u)

\* Message.countDocuments({receiver, isRead: false}): one pass over the collection
RECURSIVE CountFrom(_, _)
CountFrom(i, u) ==
  IF i >= nextMsgId THEN 0
  ELSE (IF \E m \in messages : m.id = i /\ m.receiver = u /\ ~m.isRead
          THEN 1 ELSE 0) + CountFrom(i + 1, u)

\* the isRead filter left out
CountDocuments_All(u) == Cardinality({m \in messages : m.receiver = u})

CountDocuments(u) == CountFrom(1, u)

SetProc(p, r) == [proc EXCEPT ![p] = r]

\* a new request takes the first free slot (the slots are interchangeable)
Free(p, b) ==
  /\ p <= b.procs
  /\ proc[p].pc = "idle"
  /\ \A q \in Procs : q < p => proc[q].pc # "idle"

\* requests in flight that will still insert a message
Sending == {p \in Procs : proc[p].pc = "sm_create"}

(***************************************************************************)
(* GET /api/chats/unread-count                                             *)
(***************************************************************************)
UnreadCount(u) ==
  /\ UNCHANGED <<hook, users>>
  /\ lastResp' = IF u = NoUser THEN Resp("unread", 401, "Authentication required")
                 ELSE [Resp("unread", 200, "") EXCEPT !.count = CountDocuments(u)]
  /\ UNCHANGED <<chats, messages, indexes, nextChatId, nextMsgId, now, proc, deleted>>

(***************************************************************************)
(* GET /api/chats                                                          *)
(***************************************************************************)
\* Chat.find({$or: [{user1: u}, {user2: u}]}).sort({updatedAt: -1}): every order
\* of u's chats that is descending in updatedAt
SortedByUpdatedAt(S) ==
  {s \in [1..Cardinality(S) -> S] :
     /\ \A i, j \in DOMAIN s : i # j => s[i] # s[j]
     /\ \A i, j \in DOMAIN s : i < j => s[i].updatedAt >= s[j].updatedAt}

ChatsOfUser(u) == {c \in chats : c.user1 = u \/ c.user2 = u}

\* Message.aggregate([{$match: {receiver: u, isRead: false}},
\*                    {$group: {_id: '$chat', count: {$sum: 1}}}]) as unreadMap
UnreadMap(u) ==
  [cid \in {m.chat : m \in {n \in messages : n.receiver = u /\ ~n.isRead}} |->
     Cardinality({m \in messages : m.chat = cid /\ m.receiver = u /\ ~m.isRead})]

RECURSIVE SumCounts(_, _)
SumCounts(f, S) ==
  IF S = {} THEN 0
  ELSE LET x == CHOOSE y \in S : TRUE IN f[x] + SumCounts(f, S \ {x})

GetChats_Find(p, u, b) ==
  /\ UNCHANGED <<hook, users>>
  /\ Free(p, b)
  /\ UNCHANGED <<chats, messages, indexes, nextChatId, nextMsgId, now, deleted>>
  /\ IF u = NoUser
       THEN /\ lastResp' = Resp("chats", 401, "Authentication required")
            /\ UNCHANGED proc
       ELSE /\ \E s \in SortedByUpdatedAt(ChatsOfUser(u)) :
                 proc' = SetProc(p, [Idle EXCEPT !.pc = "gc_count", !.user = u,
                                               !.list = s])
            /\ lastResp' = NoResp

GetChats_Count(p) ==
  /\ UNCHANGED <<hook, users>>
  /\ proc[p].pc = "gc_count"
  /\ LET unreadMap == UnreadMap(proc[p].user)
         list == proc[p].list
     IN lastResp' = [Resp("chats", 200, "") EXCEPT
                       !.chats = [i \in DOMAIN list |->
                                    [id |-> list[i].id,
                                     lastMessage |-> list[i].lastMessage,
                                     updatedAt |-> list[i].updatedAt,
                                     unreadCount |->
                                       IF list[i].id \in DOMAIN unreadMap
                                         THEN unreadMap[list[i].id] ELSE 0]],
                       !.count = SumCounts(unreadMap, DOMAIN unreadMap)]
  /\ proc' = SetProc(p, Idle)
  /\ UNCHANGED <<chats, messages, indexes, nextChatId, nextMsgId, now, deleted>>

(***************************************************************************)
(* GET /api/chats/:id/messages                                             *)
(***************************************************************************)
GetMessages_Find(p, u, cid, b) ==
  /\ UNCHANGED <<hook, users>>
  /\ Free(p, b)
  /\ UNCHANGED <<chats, messages, indexes, nextChatId, nextMsgId, now, deleted>>
  /\ IF u = NoUser
       THEN /\ lastResp' = Resp("list", 401, "Authentication required")
            /\ UNCHANGED proc
     ELSE IF cid = BadId
       THEN /\ lastResp' = Resp("list", 400, "Invalid chat ID format")
            /\ UNCHANGED proc
     ELSE IF FindById(cid) = {}
       THEN /\ lastResp' = Resp("list", 404, "Chat not found")
            /\ UNCHANGED proc
     ELSE LET chat == CHOOSE c \in FindById(cid) : TRUE
          IN IF ~IsParticipant(chat.participants, u)
               THEN /\ lastResp' = Resp("list", 403, "Access denied. You are not a participant in this chat")
                    /\ UNCHANGED proc
               ELSE /\ proc' = SetProc(p, [Idle EXCEPT !.pc = "gm_list", !.user = u,
                                             !.cid = cid])
                    /\ lastResp' = NoResp

\* the documents answered after the marking was applied to them
ListedMessages_Marked(found, u) ==
  [i \in DOMAIN found |->
     IF found[i].receiver = u THEN [found[i] EXCEPT !.isRead = TRUE] ELSE found[i]]

\* res.json({ messages }): the lean documents Message.find returned, which the
\* updateMany after it does not touch
ListedMessages(found, u) == found

GetMessages_List(p) ==
  /\ UNCHANGED <<hook, users>>
  /\ proc[p].pc = "gm_list"
  /\ \E s \in SortedByCreatedAt(MessagesOf(proc[p].cid)) :
       proc' = SetProc(p, [proc[p] EXCEPT !.pc = "gm_mark", !.msgs = s])
  /\ UNCHANGED <<chats, messages, indexes, nextChatId, nextMsgId, now,
                 deleted>>
  /\ lastResp' = NoResp

GetMessages_Mark(p) ==
  /\ UNCHANGED <<hook, users>>
  /\ proc[p].pc = "gm_mark"
  /\ messages' = MarkRead(proc[p].cid, proc[p].user)
  /\ lastResp' = [Resp("list", 200, "")
                    EXCEPT !.msgs = ListedMessages(proc[p].msgs, proc[p].user)]
  /\ proc' = SetProc(p, Idle)
  /\ UNCHANGED <<chats, indexes, nextChatId, nextMsgId, now, deleted>>

(***************************************************************************)
(* POST /api/chats/:id/messages                                            *)
(***************************************************************************)
SendMessage_Find(p, u, cid, text, b) ==
  /\ UNCHANGED <<hook, users>>
  /\ Free(p, b)
  /\ UNCHANGED <<chats, messages, indexes, nextChatId, nextMsgId, now, deleted>>
  /\ IF u = NoUser
       THEN /\ lastResp' = Resp("send", 401, "Authentication required")
            /\ UNCHANGED proc
     ELSE IF cid = BadId
       THEN /\ lastResp' = Resp("send", 400, "Invalid chat ID format")
            /\ UNCHANGED proc
     ELSE IF TextError(text) # ""
       THEN /\ lastResp' = Resp("send", 400, TextError(text))
            /\ UNCHANGED proc
     ELSE IF FindById(cid) = {}
       THEN /\ lastResp' = Resp("send", 404, "Chat not found")
            /\ UNCHANGED proc
     ELSE LET chat == CHOOSE c \in FindById(cid) : TRUE
          IN IF ~IsParticipant(chat.participants, u)
               THEN /\ lastResp' = Resp("send", 403, "Access denied. You are not a participant in this chat")
                    /\ UNCHANGED proc
             ELSE IF FindOther(chat.participants, u) = <<>>
               THEN /\ lastResp' = Resp("send", 400, "Cannot determine receiver")
                    /\ UNCHANGED proc
             ELSE /\ nextMsgId + Cardinality(Sending) <= b.msgs
                  /\ proc' = SetProc(p, [Idle EXCEPT
                                           !.pc = "sm_create", !.user = u,
                                           !.cid = cid,
                                           !.rcv = FindOther(chat.participants, u),
                                           !.text = Trim(text)])
                  /\ lastResp' = NoResp

\* a message stored as read
NewMessage_Read(id, cid, sender, receiver, text, t) ==
  [id |-> id, chat |-> cid, sender |-> sender, receiver |-> receiver, text |-> text,
   isRead |-> TRUE, createdAt |-> t]

\* a message addressed to its sender
NewMessage_ToSender(id, cid, sender, receiver, text, t) ==
  [id |-> id, chat |-> cid, sender |-> sender, receiver |-> sender, text |-> text,
   isRead |-> FALSE, createdAt |-> t]

\* the document of Message.create({chat, sender, receiver, text, isRead: false})
NewMessage(id, cid, sender, receiver, text, t) ==
  [id |-> id, chat |-> cid, sender |-> sender, receiver |-> receiver, text |-> text,
   isRead |-> FALSE, createdAt |-> t]

\* Message.create on the collection ms
CreateMessage(ms, m) == ms \cup {m}

\* an update that sets updatedAt and leaves lastMessage
TouchChat_KeepPointer(cs, cid, mid, t) ==
  {IF c.id = cid THEN [c EXCEPT !.updatedAt = t] ELSE c : c \in cs}

\* an update that also writes the participants back in the other order
TouchChat_Swap(cs, cid, mid, t) ==
  {IF c.id = cid
     THEN [c EXCEPT !.lastMessage = mid, !.updatedAt = t,
                    !.participants = <<c.participants[2], c.participants[1]>>]
     ELSE c : c \in cs}

\* Chat.findByIdAndUpdate(cid, {lastMessage: mid, updatedAt: t}) on the collection cs
TouchChat(cs, cid, mid, t) ==
  {IF c.id = cid THEN [c EXCEPT !.lastMessage = mid, !.updatedAt = t] ELSE c : c \in cs}

\* Message.create({chat, sender, receiver, text, isRead: false})
SendMessage_Create(p, b) ==
  /\ UNCHANGED <<hook, users>>
  /\ proc[p].pc = "sm_create"
  /\ \E t \in ClockReadings(b) :
       /\ now' = t
       /\ messages' = CreateMessage(messages,
                             NewMessage(nextMsgId, proc[p].cid, proc[p].user,
                                        proc[p].rcv, proc[p].text, t))
  /\ nextMsgId' = nextMsgId + 1
  /\ proc' = SetProc(p, [proc[p] EXCEPT !.pc = "sm_update", !.msg = nextMsgId])
  /\ UNCHANGED <<chats, indexes, nextChatId, deleted>>
  /\ lastResp' = NoResp

\* Chat.findByIdAndUpdate(chatId, {lastMessage, updatedAt: new Date()}), then 201
SendMessage_Update(p, b) ==
  /\ UNCHANGED <<hook, users>>
  /\ proc[p].pc = "sm_update"
  /\ \E t \in ClockReadings(b) :
       /\ now' = t
       /\ chats' = TouchChat(chats, proc[p].cid, proc[p].msg, t)
  /\ lastResp' = [Resp("send", 201, "")
                    EXCEPT !.msgs = <<[id |-> proc[p].msg, chat |-> proc[p].cid,
                                       sender |-> proc[p].user,
                                       receiver |-> proc[p].rcv,
                                       text |-> proc[p].text, isRead |-> FALSE]>>]
  /\ proc' = SetProc(p, Idle)
  /\ UNCHANGED <<messages, indexes, nextChatId, nextMsgId, deleted>>

\* the update is rejected by the storage layer: catch, next(error)
SendMessage_UpdateFail(p) ==
  /\ UNCHANGED <<hook, users>>
  /\ proc[p].pc = "sm_update"
  /\ lastResp' = Resp("send", ErrorStatus, "storage error")
  /\ proc' = SetProc(p, Idle)
  /\ UNCHANGED <<chats, messages, indexes, nextChatId, nextMsgId, now, deleted>>

(***************************************************************************)
(* DELETE /api/chats/:id                                                   *)
(***************************************************************************)
\* a delete that removes the messages before the participant check refuses
DeleteChat_Find_Eager(p, u, cid, b) ==
  /\ UNCHANGED <<hook, users>>
  /\ Free(p, b)
  /\ u # NoUser /\ cid # BadId /\ FindById(cid) # {}
  /\ ~IsParticipant((CHOOSE c \in FindById(cid) : TRUE).participants, u)
  /\ messages' = {m \in messages : m.chat # cid}
  /\ lastResp' = Resp("delete", 403, "Access denied")
  /\ UNCHANGED <<chats, indexes, nextChatId, nextMsgId, now, proc, deleted>>

DeleteChat_Find(p, u, cid, b) ==
  /\ UNCHANGED <<hook, users>>
  /\ Free(p, b)
  /\ UNCHANGED <<chats, messages, indexes, nextChatId, nextMsgId, now, deleted>>
  /\ IF u = NoUser
       THEN /\ lastResp' = Resp("delete", 401, "Authentication required")
            /\ UNCHANGED proc
     ELSE IF cid = BadId
       THEN /\ lastResp' = Resp("delete", 400, "Invalid chat ID format")
            /\ UNCHANGED proc
     ELSE IF FindById(cid) = {}
       THEN /\ lastResp' = Resp("delete", 404, "Chat not found")
            /\ UNCHANGED proc
     ELSE LET chat == CHOOSE c \in FindById(cid) : TRUE
          IN IF ~IsParticipant(chat.participants, u)
               THEN /\ lastResp' = Resp("delete", 403, "Access denied")
                    /\ UNCHANGED proc
               ELSE /\ proc' = SetProc(p, [Idle EXCEPT !.pc = "dc_msgs", !.user = u,
                                             !.cid = cid])
                    /\ lastResp' = NoResp

\* Message.deleteMany({chat: chat._id})
DeleteChat_Messages(p) ==
  /\ UNCHANGED <<hook, users>>
  /\ proc[p].pc = "dc_msgs"
  /\ messages' = messages \ MessagesOf(proc[p].cid)
  /\ proc' = SetProc(p, [proc[p] EXCEPT !.pc = "dc_chat",
                           !.n = Cardinality(MessagesOf(proc[p].cid))])
  /\ UNCHANGED <<chats, indexes, nextChatId, nextMsgId, now, deleted>>
  /\ lastResp' = NoResp

\* Chat.findByIdAndDelete(chat._id), then 200
DeleteChat_Chat(p) ==
  /\ UNCHANGED <<hook, users>>
  /\ proc[p].pc = "dc_chat"
  /\ chats' = chats \ FindById(proc[p].cid)
  /\ deleted' = deleted \cup {proc[p].cid}
  /\ lastResp' = [Resp("delete", 200, "Chat deleted")
                    EXCEPT !.count = proc[p].n]
  /\ proc' = SetProc(p, Idle)
  /\ UNCHANGED <<messages, indexes, nextChatId, nextMsgId, now>>

(***************************************************************************)
(* Indexes of the chats collection: [name, keys, unique, partial].         *)
(***************************************************************************)
Index(name, keys, unique) ==
  [name |-> name, keys |-> keys, unique |-> unique, partial |-> FALSE]

\* collection.createIndex: an index with these keys under another name or with
\* other options is a conflict, which every caller logs and swallows
CreateIndex(ixs, ix) ==
  IF \E j \in ixs : j.keys = ix.keys \/ j.name = ix.name THEN ixs ELSE ixs \cup {ix}

\* the indexes the schema declares (index: true on user1 and user2, schema.index)
SchemaIndexes ==
  <<Index("user1_1", <<"user1">>, FALSE), Index("user2_1", <<"user2">>, FALSE),
    Index("participants_1", <<"participants">>, FALSE),
    Index("user1_1_user2_1", <<"user1", "user2">>, FALSE)>>

\* the indexes migrateChatsToUserPair creates, in its order
MigrationIndexes ==
  <<Index("participants_1", <<"participants">>, FALSE),
    Index("user1_1", <<"user1">>, FALSE), Index("user2_1", <<"user2">>, FALSE),
    Index("user1_1_user2_1_unique", <<"user1", "user2">>, TRUE)>>

RECURSIVE CreateAll(_, _)
CreateAll(ixs, todo) ==
  IF todo = <<>> THEN ixs ELSE CreateAll(CreateIndex(ixs, Head(todo)), Tail(todo))

\* mongoose builds the schema's indexes when the model is initialised
SyncIndexes ==
  /\ UNCHANGED <<hook, users>>
  /\ indexes' = CreateAll(indexes, SchemaIndexes)
  /\ indexes' # indexes
  /\ lastResp' = NoResp
  /\ UNCHANGED <<chats, messages, nextChatId, nextMsgId, now, proc, deleted>>

(***************************************************************************)
(* ensureChatIndexes                                                       *)
(***************************************************************************)
\* the unique index on {ad, participantsKey} of the earlier schema
OldAdIndex == Index("ad_1_participantsKey_1", <<"ad", "participantsKey">>, TRUE)

\* the same keys, unique, with partialFilterExpression {ad: {$type: 'objectId'}}
PartialAdIndex ==
  [Index("ad_1_participantsKey_1_partial", <<"ad", "participantsKey">>, TRUE)
     EXCEPT !.partial = TRUE]

\* the earlier schema's model is initialised: its index is built
LegacyIndexes ==
  /\ UNCHANGED <<hook, users>>
  /\ indexes' = CreateIndex(indexes, OldAdIndex)
  /\ indexes' # indexes
  /\ lastResp' = NoResp
  /\ UNCHANGED <<chats, messages, nextChatId, nextMsgId, now, proc, deleted>>

\* existingIndexes.find(...): unique on ad and participantsKey, not partial
OldIndexes(ixs) ==
  {ix \in ixs : ix.keys = <<"ad", "participantsKey">> /\ ix.unique /\ ~ix.partial}

\* how the storage calls of a run end: the connection is there, indexes()
\* answers, dropIndex is accepted, createIndex is accepted
Runs == [db : BOOLEAN, list : BOOLEAN, drop : BOOLEAN, create : BOOLEAN]
AllOk == [db |-> TRUE, list |-> TRUE, drop |-> TRUE, create |-> TRUE]

\* a run that never drops the old index
EnsureResult_KeepOld(ixs, run) ==
  IF ~run.db \/ ~run.list \/ ~run.create THEN ixs
  ELSE CreateIndex(ixs, PartialAdIndex)

\* the indexes a run of ensureChatIndexes leaves
EnsureResult(ixs, run) ==
  IF ~run.db \/ ~run.list THEN ixs
  ELSE LET dropped == IF run.drop THEN ixs \ OldIndexes(ixs) ELSE ixs
       IN IF run.create THEN CreateIndex(dropped, PartialAdIndex) ELSE dropped

\* every error is caught and logged: the caller sees the script return
EnsureChatIndexes(run) ==
  /\ UNCHANGED <<hook, users>>
  /\ indexes' = EnsureResult(indexes, run)
  /\ lastResp' = NoResp
  /\ UNCHANGED <<chats, messages, nextChatId, nextMsgId, now, proc, deleted>>

(***************************************************************************)
(* migrateChatsToUserPair                                                  *)
(***************************************************************************)
\* user1/user2 set, participants left in the stored order
Normalised_KeepOrder(cs) ==
  {LET sorted == SortPair(c.participants[1], c.participants[2])
   IN [c EXCEPT !.user1 = sorted[1], !.user2 = sorted[2]] :
   c \in {d \in cs : Len(d.participants) = 2
                     /\ d.participants[1] # d.participants[2]}}

\* step 3: chats without two participants and self-chats are deleted, the others
\* get sorted participants and user1/user2
Normalised(cs) ==
  {LET sorted == SortPair(c.participants[1], c.participants[2])
   IN [c EXCEPT !.participants = sorted, !.user1 = sorted[1], !.user2 = sorted[2]] :
   c \in {d \in cs : Len(d.participants) = 2
                     /\ d.participants[1] # d.participants[2]}}

\* step 4: sortedChats of a group is by updatedAt, newest first, chats of equal
\* updatedAt in the order the group lists them (by _id)
Before(c, d) == c.updatedAt > d.updatedAt \/ (c.updatedAt = d.updatedAt /\ c.id < d.id)

Group(cs, c) == {d \in cs : d.user1 = c.user1 /\ d.user2 = c.user2}

\* the chat of the group that every other one comes before
ToKeep_Oldest(cs, c) ==
  CHOOSE k \in Group(cs, c) : \A d \in Group(cs, c) \ {k} : Before(d, k)

ToKeep(cs, c) == CHOOSE k \in Group(cs, c) : \A d \in Group(cs, c) \ {k} : Before(k, d)

\* the deleted chats whose lastMessage is moved to the kept one
Movers(cs, k) ==
  {d \in Group(cs, k) \ {k} :
     d.lastMessage # NoId /\ (k.lastMessage = NoId \/ d.updatedAt > k.updatedAt)}

Merged(cs, k) ==
  IF Movers(cs, k) = {} THEN k
  ELSE LET last == CHOOSE d \in Movers(cs, k) :
                     \A e \in Movers(cs, k) \ {d} : Before(e, d)
       IN [k EXCEPT !.lastMessage = last.lastMessage, !.updatedAt = last.updatedAt]

Deduplicated(cs) == {Merged(cs, ToKeep(cs, c)) : c \in cs}

\* the unique index on {user1, user2} is among the indexes
HasUniquePair(ixs) == \E ix \in ixs : ix.unique /\ ix.keys = <<"user1", "user2">>

\* the chats step 3 does not delete
Valid(cs) ==
  {d \in cs : Len(d.participants) = 2 /\ d.participants[1] # d.participants[2]}

\* collection.bulkWrite(updates), ordered: the updates of the chats `ids`, in
\* the order find({}) returned them, up to the first one that the unique
\* index rejects
RECURSIVE BulkWrite(_, _, _)
BulkWrite(cs, ids, unique) ==
  IF ids = {} THEN [ok |-> TRUE, chats |-> cs]
  ELSE LET id == CHOOSE i \in ids : \A j \in ids : i <= j
           c == CHOOSE d \in cs : d.id = id
           sorted == SortPair(c.participants[1], c.participants[2])
           n == [c EXCEPT !.participants = sorted, !.user1 = sorted[1],
                          !.user2 = sorted[2]]
       IN IF unique /\ \E d \in cs : d.id # id /\ d.user1 = n.user1
                                     /\ d.user2 = n.user2
            THEN [ok |-> FALSE, chats |-> cs]
            ELSE BulkWrite((cs \ {c}) \cup {n}, ids \ {id}, unique)

\* the run of the script; a rejected bulkWrite is thrown to the caller after
\* the index drops of step 2 and the deletions of step 3
Migrate ==
  /\ UNCHANGED <<hook, users>>
  /\ LET kept == {ix \in indexes : "participants" \notin Range(ix.keys)
                                   /\ "ad" \notin Range(ix.keys)}
         step3 == BulkWrite(Valid(chats), {c.id : c \in Valid(chats)},
                            HasUniquePair(kept))
     IN IF step3.ok
          THEN /\ chats' = Deduplicated(Normalised(chats))
               /\ indexes' = CreateAll(kept, MigrationIndexes)
               /\ lastResp' = NoResp
          ELSE /\ chats' = step3.chats
               /\ indexes' = kept
               /\ lastResp' = Resp("migrate", 0, "E11000 duplicate key error")
  /\ UNCHANGED <<messages, nextChatId, nextMsgId, now, proc, deleted>>

(***************************************************************************)
(* cleanupBrokenChats                                                      *)
(***************************************************************************)
\* the unique indexes step 2 selects
WrongIndexes(ixs) ==
  {ix \in ixs : ix.unique
                /\ Range(ix.keys) \cap {"user1", "user2", "participants"} # {}}

\* a dropIndex the server rejects is logged and the script goes on
Cleanup ==
  /\ UNCHANGED <<hook, users>>
  /\ \E rejected \in SUBSET WrongIndexes(indexes) :
       indexes' = indexes \ (WrongIndexes(indexes) \ rejected)
  /\ chats' = {c \in chats : c.user1 # <<>> /\ c.user2 # <<>>
                             /\ Len(c.participants) = 2}
  /\ lastResp' = NoResp
  /\ UNCHANGED <<messages, nextChatId, nextMsgId, now, proc, deleted>>

\* ---------------------------------------------------------------------
\* User documents (models/User.js) and the projections applied to them
\* ---------------------------------------------------------------------

\* paths of userSchema, with _id and the two timestamps
UserPaths == {"_id", "name", "email", "password", "favorites",
              "passwordResetToken", "passwordResetExpires",
              "createdAt", "updatedAt"}

\* paths declared with select: false
SelectFalse == {"password", "passwordResetToken", "passwordResetExpires"}

\* the stored document of user u; a user who never asked for a password
\* reset has neither reset path
UserDoc(u, reset) ==
  [f \in (IF reset THEN UserPaths
          ELSE UserPaths \ {"passwordResetToken", "passwordResetExpires"}) |->
     IF f = "_id" THEN u ELSE <<f, u>>]

\* a projection that returns the stored document as it is
Select_Raw(doc, mode, paths) == doc

\* Query.select / populate's field list on a user document: an inclusive
\* list returns _id and the listed paths; an exclusive list returns every
\* path that is neither listed nor declared select: false
Select(doc, mode, paths) ==
  LET kept == IF mode = "include"
              THEN (paths \cup {"_id"}) \cap DOMAIN doc
              ELSE (DOMAIN doc \ paths) \ SelectFalse
  IN [f \in kept |-> doc[f]]

\* populate(path, 'name email')
Populate(doc) == Select(doc, "include", {"name", "email"})

\* req.user as protect builds it from User.findById(id).select('-password')
ReqUser(doc) ==
  LET user == Select(doc, "exclude", {"password"})
  IN [id |-> user["_id"], _id |-> user["_id"],
      name |-> user["name"], email |-> user["email"]]

(***************************************************************************)
(* protect: the middleware in front of every chat route.                   *)
(***************************************************************************)
\* the id in the token of a user who is no longer stored
Ghost == <<48, 48>>

\* what a request carries: the scheme of its Authorization header ("none": no
\* header), the state of the token after the scheme ("none": no token) and the
\* id the token was signed for
Credentials ==
  {[scheme |-> "none", token |-> "none", id |-> NoUser],
   [scheme |-> "Basic", token |-> "valid", id |-> UserA],
   [scheme |-> "Bearer", token |-> "none", id |-> NoUser]}
  \cup [scheme : {"Bearer"}, token : {"valid"}, id : {UserA, UserB, Ghost}]
  \cup [scheme : {"Bearer"}, token : {"expired", "malformed"}, id : {UserA}]

\* new AppError('JWT configuration error', 500)
JwtConfigStatus == 500

Refusal(status, message) ==
  [pass |-> FALSE, status |-> status, message |-> message, user |-> NoUser]

\* protect that does not look the user up
Authenticate_NoLookup(cred, secret) ==
  IF cred.scheme # "Bearer" \/ cred.token = "none"
    THEN Refusal(401, "Authentication required")
  ELSE IF ~secret THEN Refusal(JwtConfigStatus, "JWT configuration error")
  ELSE IF cred.token # "valid" THEN Refusal(401, "Token invalid or expired")
  ELSE [pass |-> TRUE, status |-> 0, message |-> "", user |-> cred.id]

\* protect up to next(): the token is taken from a Bearer header, verified with
\* JWT_SECRET (secret: whether it is configured) and its user looked up
Authenticate(cred, secret) ==
  IF cred.scheme # "Bearer" \/ cred.token = "none"
    THEN Refusal(401, "Authentication required")
  ELSE IF ~secret THEN Refusal(JwtConfigStatus, "JWT configuration error")
  ELSE IF cred.token # "valid" THEN Refusal(401, "Token invalid or expired")
  ELSE IF cred.id \notin Users THEN Refusal(401, "Token invalid or expired")
  ELSE [pass |-> TRUE, status |-> 0, message |-> "", user |-> cred.id]

\* router.<method>(path, protect, handler): the handler runs when protect calls
\* next(), otherwise protect's response ends the request
Protect(cred, secret, Handler) ==
  IF Authenticate(cred, secret).pass THEN Handler
  ELSE /\ lastResp' = Resp("auth", Authenticate(cred, secret).status,
                           Authenticate(cred, secret).message)
       /\ UNCHANGED <<chats, messages, indexes, nextChatId, nextMsgId, now, proc,
                      deleted, hook, users>>

Route_UnreadCount(cred, secret) ==
  Protect(cred, secret, UnreadCount(Authenticate(cred, secret).user))

Route_GetChats(cred, secret, b) ==
  Protect(cred, secret, GetChats_Find(1, Authenticate(cred, secret).user, b))

Route_StartChat(cred, secret, raw, b) ==
  Protect(cred, secret, StartChat(Authenticate(cred, secret).user, raw, b))

Route_GetMessages(cred, secret, cid, b) ==
  Protect(cred, secret, GetMessages_Find(1, Authenticate(cred, secret).user, cid, b))

Route_SendMessage(cred, secret, cid, text, b) ==
  Protect(cred, secret,
          SendMessage_Find(1, Authenticate(cred, secret).user, cid, text, b))

Route_DeleteChat(cred, secret, cid, b) ==
  Protect(cred, secret, DeleteChat_Find(1, Authenticate(cred, secret).user, cid, b))

\* the requests on one chat, with those that create chats and count messages
ChatCalls(b) ==
  \/ \E r \in b.starts : StartChat(r[1], r[2], b)
  \/ \E u \in Callers : UnreadCount(u)
  \/ \E p \in Procs, u \in Callers, cid \in ChatIdParams : GetMessages_Find(p, u, cid, b)
  \/ \E p \in Procs : GetMessages_List(p)
  \/ \E p \in Procs : GetMessages_Mark(p)
  \/ \E p \in Procs, u \in Callers, cid \in ChatIdParams, text \in TextsOf(b) :
       SendMessage_Find(p, u, cid, text, b)
  \/ \E p \in Procs : SendMessage_Create(p, b)
  \/ \E p \in Procs : SendMessage_Update(p, b)
  \/ \E p \in Procs : SendMessage_UpdateFail(p)
  \/ \E p \in Procs, u \in Callers, cid \in ChatIdParams : DeleteChat_Find(p, u, cid, b)
  \/ \E p \in Procs : DeleteChat_Messages(p)
  \/ \E p \in Procs : DeleteChat_Chat(p)

Next(b) ==
  \/ ChatCalls(b)
  \/ \E p \in Procs, u \in Callers : GetChats_Find(p, u, b)
  \/ \E p \in Procs : GetChats_Count(p)

\* one request at a time, several conversations
SeqBounds == [procs |-> 1, chats |-> MaxChats, msgs |-> MaxMsgs, time |-> MaxTime,
              starts |-> StartRequests, long |-> FALSE]
\* requests interleaving on one conversation
ConcBounds == [procs |-> NProcs, chats |-> 1, msgs |-> MaxMsgs, time |-> MaxTime,
               starts |-> {r \in StartRequests : r[1] # UserC}, long |-> FALSE]

\* one conversation, with the message texts at the length limits
TextBounds == [procs |-> 1, chats |-> 1, msgs |-> MaxMsgs, time |-> MaxTime,
               starts |-> {r \in StartRequests : r[1] = UserA}, long |-> TRUE]

NextSeq == Next(SeqBounds)
NextText == Next(TextBounds)
NextConc == ChatCalls(ConcBounds)

\* the maintenance scripts run at server startup, with the requests that create
\* chats and messages
NextOps ==
  \/ \E r \in StartRequests : StartChat(r[1], r[2], SeqBounds)
  \/ \E u \in Users, cid \in ChatIds, text \in ShortTexts :
       SendMessage_Find(1, u, cid, text, SeqBounds)
  \/ SendMessage_Create(1, SeqBounds)
  \/ SendMessage_Update(1, SeqBounds)
  \/ \E u \in Users : GetChats_Find(1, u, SeqBounds)
  \/ GetChats_Count(1)
  \/ SyncIndexes
  \/ Migrate
  \/ Cleanup

\* the chat list of a user of several chats, with sends on them, on a running
\* clock
ListBounds == [procs |-> 1, chats |-> MaxChats, msgs |-> MaxMsgs, time |-> MaxClock,
               starts |-> {r \in StartRequests : r[1] = UserA /\ r[2] = UserB},
               long |-> FALSE]

NextList ==
  \/ \E r \in ListBounds.starts : StartChat(r[1], r[2], ListBounds)
  \/ \E u \in {UserA, UserB}, cid \in ChatIds :
       SendMessage_Find(1, u, cid, [lead |-> 1, body |-> 1, trail |-> 1], ListBounds)
  \/ SendMessage_Create(1, ListBounds)
  \/ SendMessage_Update(1, ListBounds)
  \/ SendMessage_UpdateFail(1)
  \/ \E u \in Callers : GetChats_Find(1, u, ListBounds)
  \/ GetChats_Count(1)

\* the chat routes behind protect, one request at a time on one chat
AuthBounds == [procs |-> 1, chats |-> 1, msgs |-> MaxMsgs, time |-> MaxTime,
               starts |-> {}, long |-> FALSE]

NextAuth ==
  \/ \E cred \in Credentials, secret \in BOOLEAN :
       \/ Route_UnreadCount(cred, secret)
       \/ Route_GetChats(cred, secret, AuthBounds)
       \/ Route_StartChat(cred, secret, UserB, AuthBounds)
       \/ \E cid \in 1..AuthBounds.chats :
            \/ Route_GetMessages(cred, secret, cid, AuthBounds)
            \/ Route_SendMessage(cred, secret, cid,
                                 [lead |-> 0, body |-> 1, trail |-> 0], AuthBounds)
            \/ Route_DeleteChat(cred, secret, cid, AuthBounds)
  \/ GetChats_Count(1)
  \/ GetMessages_List(1)
  \/ GetMessages_Mark(1)
  \/ SendMessage_Create(1, AuthBounds)
  \/ SendMessage_Update(1, AuthBounds)
  \/ SendMessage_UpdateFail(1)
  \/ DeleteChat_Messages(1)
  \/ DeleteChat_Chat(1)

\* the maintenance scripts on a collection that holds chats of the earlier
\* startChat beside those of the present one, on a running clock
MaintBounds == [procs |-> 1, chats |-> MaxChats, msgs |-> 1, time |-> MaxClock,
                starts |-> {r \in StartRequests : r[1] = UserA /\ r[2] = UserB},
                long |-> FALSE]

NextMaint ==
  \/ \E r \in MaintBounds.starts : StartChat(r[1], r[2], MaintBounds)
  \/ \E r \in {<<UserB, UserA>>, <<UserA, UserC>>} :
       LegacyStartChat(r[1], r[2], MaintBounds)
  \/ \E cid \in ChatIds :
       SendMessage_Find(1, UserA, cid, [lead |-> 0, body |-> 1, trail |-> 0],
                        MaintBounds)
  \/ SendMessage_Create(1, MaintBounds)
  \/ SendMessage_Update(1, MaintBounds)
  \/ SyncIndexes
  \/ Migrate
  \/ Cleanup

\* the scripts that change the indexes of the chats collection, with chats
\* being created
NextIndex ==
  \/ \E r \in MaintBounds.starts : StartChat(r[1], r[2], MaintBounds)
  \/ LegacyIndexes
  \/ SyncIndexes
  \/ \E run \in Runs : EnsureChatIndexes(run)
  \/ Migrate
  \/ Cleanup

Spec == Init /\ [][NextSeq]_vars
SpecAuth == Init /\ [][NextAuth]_vars
SpecList == Init /\ [][NextList]_vars
SpecConc == Init /\ [][NextConc]_vars
SpecOps == Init /\ [][NextOps]_vars
SpecText == Init /\ [][NextText]_vars
SpecMaint == Init /\ [][NextMaint]_vars
SpecIndex == Init /\ [][NextIndex]_vars

(***************************************************************************)
(* The user model: documents, their modified paths and the pre('save')     *)
(* hook that hashes the password.                                          *)
(***************************************************************************)
\* passwords as entered and names, as texts of words
Plaintexts == {<<"secret1">>, <<"secret2">>}
Names == {<<"Ann">>, <<"Bea">>}

\* hashes a retried save may stack
MaxRehash == 2

\* bcrypt.hash(value, 12): the value under the marker of a bcrypt hash with
\* cost 12
Hash(value) == <<"$2a$12$">> \o value

\* how many times a value was hashed
RECURSIVE HashDepth(_)
HashDepth(value) ==
  IF value # <<>> /\ Head(value) = "$2a$12$" THEN 1 + HashDepth(Tail(value))
  ELSE 0

\* a hook that hashes the password on every save
PreSavePassword_Always(doc) ==
  IF doc.password = Unset THEN doc
  ELSE [doc EXCEPT !.password = Hash(doc.password),
                   !.modified = @ \cup {"password"}]

\* pre('save'): hash the password only when the path is modified
PreSavePassword(doc) ==
  IF "password" \notin doc.modified THEN doc
  ELSE [doc EXCEPT !.password = Hash(doc.password),
                   !.modified = @ \cup {"password"}]

\* new User({name, password}): every path given is modified
User_New(name, password) ==
  /\ users.doc.state = "none" /\ ~users.stored.exists
  /\ users' = [users EXCEPT !.doc = [state |-> "new", password |-> password,
                                     name |-> name,
                                     modified |-> {"name", "password"}],
                            !.result = "new"]
  /\ UNCHANGED <<chatVars, hook>>

\* User.findOne(...), with or without .select('+password')
User_Find(withPassword) ==
  /\ users.stored.exists
  /\ users' = [users EXCEPT !.doc =
                 [state |-> "found",
                  password |-> IF withPassword THEN users.stored.password ELSE Unset,
                  name |-> users.stored.name, modified |-> {}],
                            !.result = "found"]
  /\ UNCHANGED <<chatVars, hook>>

\* doc[path] = value: the path is modified when the value differs
User_Set(path, value) ==
  /\ users.doc.state # "none"
  /\ users.doc[path] # value
  /\ users' = [users EXCEPT !.doc[path] = value,
                            !.doc.modified = @ \cup {path},
                            !.result = "set"]
  /\ UNCHANGED <<chatVars, hook>>

\* doc.save(): the hook, then the write of the modified paths; a write that
\* the store rejects leaves the document as the hook left it, its paths
\* still modified
User_Save(accepted) ==
  /\ users.doc.state # "none"
  /\ HashDepth(users.doc.password) < MaxRehash
  /\ LET doc == PreSavePassword(users.doc)
     IN users' =
          IF accepted
            THEN [stored |-> [exists |-> TRUE,
                              password |-> IF "password" \in doc.modified
                                             THEN doc.password
                                             ELSE users.stored.password,
                              name |-> IF "name" \in doc.modified
                                         THEN doc.name ELSE users.stored.name],
                  doc |-> [doc EXCEPT !.state = "found", !.modified = {}],
                  result |-> "saved"]
            ELSE [users EXCEPT !.doc = doc, !.result = "rejected"]
  /\ UNCHANGED <<chatVars, hook>>

\* the document goes out of scope
User_Drop ==
  /\ users.doc.state # "none"
  /\ users' = [users EXCEPT !.doc = NoUsers.doc, !.result = "dropped"]
  /\ UNCHANGED <<chatVars, hook>>

NextUser ==
  \/ \E name \in Names, password \in Plaintexts : User_New(name, password)
  \/ \E withPassword \in BOOLEAN : User_Find(withPassword)
  \/ \E password \in Plaintexts : User_Set("password", password)
  \/ \E name \in Names : User_Set("name", name)
  \/ \E accepted \in BOOLEAN : User_Save(accepted)
  \/ User_Drop

SpecUser == Init /\ [][NextUser]_vars

(***************************************************************************)
(* Outbound webhook: sendToMakeWebhook and the older                       *)
(* sendForgotPasswordToMake.                                               *)
(***************************************************************************)

\* seconds after which the abort timer of an attempt fires
AbortSeconds == 8
\* for (let attempt = 0; attempt < 2; attempt++)
MaxAttempts == 2
\* seconds of an attempt the model follows
MaxElapsed == 10

HookFns == {"sendToMakeWebhook", "sendForgotPasswordToMake"}

\* what fetch rejects with when the abort timer fires
AbortError == [name |-> "AbortError",
               message |-> <<"This", "operation", "was", "aborted">>, code |-> ""]
\* what fetch rejects with otherwise
FetchErrors ==
  {[name |-> "TypeError", message |-> <<"fetch", "failed">>, code |-> ""],
   [name |-> "Error", message |-> <<"network", "down">>, code |-> ""],
   [name |-> "Error", message |-> <<"connect", "refused">>, code |-> "ECONNREFUSED"],
   [name |-> "Error", message |-> <<"connect", "timeout">>, code |-> "ETIMEDOUT"],
   [name |-> "TypeError", message |-> <<"Invalid", "URL">>, code |-> ""],
   [name |-> "Error", message |-> Null, code |-> ""]}

\* statuses of the responses the endpoint gives
HookStatuses == {200, 500}

\* String.prototype.includes on texts of words
Includes(text, part) ==
  \E i \in 0..(Len(text) - Len(part)) :
     \A j \in 1..Len(part) : text[i + j] = part[j]

\* an error every attempt is retried after
IsRetryable_Always(error) == TRUE

\* isRetryable
IsRetryable(error) ==
  \/ error.name = "AbortError"
  \/ Includes(error.message, <<"fetch", "failed">>)
  \/ Includes(error.message, <<"network">>)
  \/ error.code = "ECONNREFUSED"
  \/ error.code = "ETIMEDOUT"

\* error.message || 'Unknown error'
MessageOf(error) ==
  IF error.message = Null THEN <<"Unknown", "error">> ELSE error.message

\* a catch block that leaves the timer of the attempt armed
Catch_NoClear(h, error) ==
  LET kept == [h EXCEPT !.lastError = error]
  IN IF h.fn = "sendToMakeWebhook" /\ IsRetryable(error) /\ h.attempt # 1
       THEN [kept EXCEPT !.pc = "backoff"]
       ELSE [kept EXCEPT !.pc = "returned",
                         !.result = [ok |-> FALSE, status |-> NoStatus,
                                     responsePreview |-> Null,
                                     error |-> MessageOf(error)]]

\* the catch block of an attempt: clearTimeout, then retry or return
Catch(h, error) ==
  LET cleared == [h EXCEPT !.timers = @ \ {h.attempt}, !.lastError = error]
  IN IF h.fn = "sendToMakeWebhook"
       THEN IF ~IsRetryable(error) \/ h.attempt = 1
              THEN [cleared EXCEPT !.pc = "returned",
                                   !.result = [ok |-> FALSE, status |-> NoStatus,
                                               responsePreview |-> Null,
                                               error |-> MessageOf(error)]]
              ELSE [cleared EXCEPT !.pc = "backoff"]
     ELSE [cleared EXCEPT !.pc = "returned",
             !.result = [ok |-> FALSE, status |-> NoStatus,
                         bodyPreview |->
                           IF error.name = "AbortError"
                             THEN <<"Request", "timeout", "after", "8", "seconds">>
                             ELSE MessageOf(error)]]

\* the call: the first attempt arms its abort timer and starts fetch
Hook_Call(fn) ==
  /\ hook.pc \in {"idle", "returned"}
  /\ hook' = [HookIdle EXCEPT !.fn = fn, !.pc = "fetch", !.timers = {0},
                              !.fetches = 1]
  /\ UNCHANGED <<chatVars, users>>

\* a second passes while fetch is pending
Hook_Tick ==
  /\ hook.pc = "fetch"
  /\ hook.elapsed < AbortSeconds
  /\ hook' = [hook EXCEPT !.elapsed = @ + 1]
  /\ UNCHANGED <<chatVars, users>>

\* the abort timer fires: fetch rejects with an AbortError
Hook_Abort ==
  /\ hook.pc = "fetch"
  /\ hook.elapsed = AbortSeconds
  /\ hook.attempt \in hook.timers
  /\ hook' = Catch(hook, AbortError)
  /\ UNCHANGED <<chatVars, users>>

\* fetch rejects for another reason
Hook_FetchError(error) ==
  /\ hook.pc = "fetch"
  /\ hook' = Catch(hook, error)
  /\ UNCHANGED <<chatVars, users>>

\* fetch resolves with the response head: clearTimeout, then response.text()
Hook_Response(status) ==
  /\ hook.pc = "fetch"
  /\ hook' = [hook EXCEPT !.pc = "text", !.status = status,
                          !.timers = @ \ {hook.attempt}]
  /\ UNCHANGED <<chatVars, users>>

\* a second passes while the response body is awaited
Hook_BodyWait ==
  /\ hook.pc = "text"
  /\ hook.elapsed < MaxElapsed
  /\ hook' = [hook EXCEPT !.elapsed = @ + 1]
  /\ UNCHANGED <<chatVars, users>>

\* response.text() settles, read or not: the result of the response
Hook_Text(readable) ==
  /\ hook.pc = "text"
  /\ LET preview == IF readable THEN <<"Accepted">>
                    ELSE <<"[Unable", "to", "read", "response", "body]">>
         ok == hook.status \in 200..299
     IN hook' = [hook EXCEPT
                   !.pc = "returned",
                   !.result =
                     IF hook.fn = "sendToMakeWebhook"
                       THEN [ok |-> ok, status |-> hook.status,
                             responsePreview |-> preview, error |-> Null]
                       ELSE [ok |-> ok, status |-> hook.status,
                             bodyPreview |-> preview]]
  /\ UNCHANGED <<chatVars, users>>

\* the 500 ms wait is over: the second attempt arms its timer and starts fetch
Hook_Retry ==
  /\ hook.pc = "backoff"
  /\ hook.attempt + 1 < MaxAttempts
  /\ hook' = [hook EXCEPT !.pc = "fetch", !.attempt = @ + 1, !.elapsed = 0,
                          !.timers = @ \cup {hook.attempt + 1},
                          !.fetches = @ + 1]
  /\ UNCHANGED <<chatVars, users>>

NextHook ==
  \/ \E fn \in HookFns : Hook_Call(fn)
  \/ Hook_Tick
  \/ Hook_Abort
  \/ \E error \in FetchErrors : Hook_FetchError(error)
  \/ \E status \in HookStatuses : Hook_Response(status)
  \/ Hook_BodyWait
  \/ \E readable \in BOOLEAN : Hook_Text(readable)
  \/ Hook_Retry

\* timers fire and the event loop runs what is due: a pending fetch sees its
\* seconds pass and its abort, a finished wait is followed by the retry.
\* Nothing in the code bounds the wait for a response body.
SpecHook ==
  /\ Init /\ [][NextHook]_vars
  /\ WF_vars(Hook_Tick) /\ WF_vars(Hook_Abort) /\ WF_vars(Hook_Retry)

(***************************************************************************)
(* Properties of starting a conversation.                                  *)
(***************************************************************************)
\* the start requests of one user to another, <<caller, receiverId, receiver>>
CrossRequests ==
  {<<UserA, <<97, 48>>, UserB>>, <<UserB, <<48, 65>>, UserA>>,
   <<UserC, <<32, 97, 48, 32>>, UserB>>}

\* the start requests of a user to itself, <<caller, receiverId>>
SelfRequests ==
  {<<UserA, <<48, 97>>>>, <<UserB, <<65, 48>>>>, <<UserC, <<32, 97, 97>>>>}

\* a < b for two ids of the same length, by the first position they differ at
LexLess(a, b) ==
  \E i \in 1..Len(a) : a[i] < b[i] /\ \A j \in 1..(i - 1) : a[j] = b[j]

SamePair(c, d) == {c.user1, c.user2} = {d.user1, d.user2}

\* C1: start calls for one pair of users, in any order and both directions (each
\* call has a single storage step, so an interleaving is an order of the calls),
\* leave exactly one stored chat of the pair, and every call returns its id.
C1_OneChatPerPair ==
  /\ \A c, d \in chats : SamePair(c, d) => c.id = d.id
  /\ lastResp.op = "start" /\ lastResp.status \in {200, 201}
       => \A c, d \in chats : c.id = lastResp.chat /\ SamePair(c, d) => d.id = lastResp.chat

\* C2: a start call for a pair that already has a stored chat answers 200 with
\* the id of that chat and stores nothing.
C2_StartIdempotent ==
  [][\A r \in CrossRequests :
       StartChat(r[1], r[2], SeqBounds) /\ ChatsOfPair(r[1], r[3]) # {}
         => /\ lastResp'.status = 200
            /\ lastResp'.message = "Chat already exists"
            /\ lastResp'.chat \in {c.id : c \in ChatsOfPair(r[1], r[3])}
            /\ chats' = chats]_vars

\* C4: every stored chat has user1 < user2 strictly and participants =
\* [user1, user2]; a start call of u to v stores the pair {u, v}, so both
\* directions store the same canonical pair.
C4_CanonicalPair ==
  [][/\ \A c \in chats' : LexLess(c.user1, c.user2) /\ c.participants = <<c.user1, c.user2>>
     /\ \A r \in CrossRequests :
          StartChat(r[1], r[2], SeqBounds)
            => \A c \in chats' \ chats : {c.user1, c.user2} = {r[1], r[3]}]_vars

\* C4 witness: the chat of a call whose caller is the greater id of its pair
\* (UserC to UserB) is stored, next to a chat of UserA and UserB
C4_Witness ==
  /\ lastResp.op = "start" /\ lastResp.status = 201
  /\ \E c \in chats : c.id = lastResp.chat /\ c.user1 = UserB /\ c.user2 = UserC
  /\ \E c \in chats : c.user1 = UserA /\ c.user2 = UserB

\* C5: a start call of a user to itself, however its own id is spelled, answers
\* 400 and leaves the chats as they were; no stored chat has two equal participants.
C5_NoSelfChat ==
  [][/\ \A r \in SelfRequests :
          StartChat(r[1], r[2], SeqBounds) => lastResp'.status = 400 /\ chats' = chats
     /\ \A c \in chats' : c.user1 # c.user2 /\ c.participants[1] # c.participants[2]]_vars

\* C5 witness: a self-start was rejected while a chat is stored
C5_Witness ==
  /\ lastResp.op = "start" /\ lastResp.status = 400
  /\ lastResp.message = "Cannot start chat with yourself"
  /\ chats # {}

(***************************************************************************)
(* Properties of the message handlers.                                     *)
(***************************************************************************)
\* the users of the stored chat cid (none when no such chat is stored)
UsersOf(cid) == UNION {{c.user1, c.user2} : c \in FindById(cid)}

\* a text the send handler rejects: blank after trim, or too long
BadText(t) == t.body = 0 \/ t.body > MaxTextLength

MsgIdsOf(ms) == {m.id : m \in ms}

\* the stored messages to u that are not read
Unread(ms, u) == {m \in ms : m.receiver = u /\ ~m.isRead}

\* a step that takes a list, send or delete call: the request is admitted (its
\* slot leaves idle) or answered at once (no slot changes)
ChatCallStep ==
  \/ \E q \in Procs : proc[q].pc = "idle" /\ proc'[q].pc # "idle"
  \/ proc' = proc /\ lastResp'.op \in {"list", "send", "delete"}

\* C3: under every interleaving of sending and deleting, every stored message
\* belongs to a stored chat.
C3_NoOrphans == \A m \in messages : FindById(m.chat) # {}

\* C6: when the insert of a start call is rejected as a duplicate (a unique
\* index on {user1, user2} exists and the pair has a stored chat), the call
\* answers 200 with the stored chat.
C6_ConflictNeverSurfaced ==
  [][\A r \in CrossRequests :
       /\ StartChat(r[1], r[2], SeqBounds)
       /\ \E ix \in indexes : ix.unique /\ ix.keys = <<"user1", "user2">>
       /\ ChatsOfPair(r[1], r[3]) # {}
       => /\ lastResp'.status = 200
          /\ lastResp'.chat \in {c.id : c \in ChatsOfPair(r[1], r[3])}]_vars

\* C7 as stated: a list, send or delete call of a user who is no participant of
\* the chat named answers 403, whether or not the chat exists, whatever the text.
C7_AlwaysForbidden ==
  [][ChatCallStep =>
       \A p \in Procs, u \in Users, cid \in ChatIds :
         u \notin UsersOf(cid)
           => /\ GetMessages_Find(p, u, cid, SeqBounds) => lastResp'.status = 403
              /\ DeleteChat_Find(p, u, cid, SeqBounds) => lastResp'.status = 403
              /\ \A text \in TextsOf(SeqBounds) :
                   SendMessage_Find(p, u, cid, text, SeqBounds)
                     => lastResp'.status = 403]_vars

\* C7 amended: for a stored chat and a user who is no participant of it, list
\* and delete answer 403, and send answers 403 when its text is valid and 400
\* when it is not; when no chat has the id, the calls answer 404 (send with an
\* invalid text: 400).
C7_ForbiddenAfterLookup ==
  [][ChatCallStep =>
       \A p \in Procs, u \in Users, cid \in ChatIds :
         LET refusal == IF FindById(cid) = {} THEN 404 ELSE 403
         IN u \notin UsersOf(cid)
              => /\ GetMessages_Find(p, u, cid, SeqBounds) => lastResp'.status = refusal
                 /\ DeleteChat_Find(p, u, cid, SeqBounds) => lastResp'.status = refusal
                 /\ \A text \in TextsOf(SeqBounds) :
                      SendMessage_Find(p, u, cid, text, SeqBounds)
                        => lastResp'.status = IF BadText(text) THEN 400 ELSE refusal]_vars

\* C7 witness: a send call on a stored chat was answered 403
C7_Witness ==
  /\ lastResp.op = "send" /\ lastResp.status = 403
  /\ chats # {}

\* C8: a request passes the authorization check only for a participant of the
\* chat as stored at the check; messages are returned, inserted and deleted only
\* by requests that passed it; and a participant's call on a stored chat is never
\* answered 403.
C8_ParticipantsOnly ==
  [][/\ \A p \in Procs :
          proc[p].pc = "idle" /\ proc'[p].pc \notin {"idle", "gc_count"}
            => proc'[p].user \in UsersOf(proc'[p].cid)
     /\ lastResp'.op = "list" /\ lastResp'.status = 200
          => \E p \in Procs :
               /\ proc[p].pc = "gm_mark"
               /\ \A i \in DOMAIN lastResp'.msgs : lastResp'.msgs[i].chat = proc[p].cid
     /\ \A m \in messages' :
          m.id \notin MsgIdsOf(messages)
            => \E p \in Procs : /\ proc[p].pc = "sm_create"
                                /\ m.sender = proc[p].user /\ m.chat = proc[p].cid
     /\ \A m \in messages :
          m.id \notin MsgIdsOf(messages')
            => \E p \in Procs : proc[p].pc = "dc_msgs" /\ m.chat = proc[p].cid
     /\ lastResp'.status = 403
          => \A p \in Procs, u \in Users, cid \in ChatIds :
               u \in UsersOf(cid)
                 => /\ ~GetMessages_Find(p, u, cid, ConcBounds)
                    /\ ~DeleteChat_Find(p, u, cid, ConcBounds)
                    /\ \A text \in TextsOf(ConcBounds) :
                         ~SendMessage_Find(p, u, cid, text, ConcBounds)]_vars

\* C8 witness: the messages of a chat were returned while another request on
\* chats is in flight
C8_Witness ==
  /\ lastResp.op = "list" /\ lastResp.status = 200 /\ lastResp.msgs # <<>>
  /\ \E p \in Procs : proc[p].pc # "idle"

\* C9: once a delete call on a chat has answered 200, no message of that chat is
\* stored and no chat has its id (a lookup of it finds nothing, so answers 404).
C9_DeleteCascade == \A cid \in deleted : MessagesOf(cid) = {} /\ FindById(cid) = {}

\* C10: the unread count answered to u is the number of stored messages to u
\* that are not read; when a list call of u on a chat completes, no message of
\* that chat to u is unread and the number of u's unread messages has gone down
\* by the number the chat held.
C10_UnreadCount ==
  [][/\ \A u \in Users :
          UnreadCount(u) => lastResp'.count = Cardinality(Unread(messages, u))
     /\ \A p \in Procs :
          GetMessages_Mark(p)
            => LET u == proc[p].user
                   here == {m \in Unread(messages, u) : m.chat = proc[p].cid}
               IN /\ \A m \in Unread(messages', u) : m.chat # proc[p].cid
                  /\ Cardinality(Unread(messages', u))
                       = Cardinality(Unread(messages, u)) - Cardinality(here)]_vars

\* C10 witness: a list call returned a message that was unread and is now read,
\* while its receiver has an unread message in another chat
C10_Witness ==
  /\ lastResp.op = "list" /\ lastResp.status = 200
  /\ \E i \in DOMAIN lastResp.msgs :
       /\ ~lastResp.msgs[i].isRead
       /\ \E m \in messages : m.id = lastResp.msgs[i].id /\ m.isRead
       /\ \E m \in messages : /\ m.chat # lastResp.msgs[i].chat
                              /\ m.receiver = lastResp.msgs[i].receiver
                              /\ ~m.isRead

(***************************************************************************)
(* Properties of the message ledger.                                       *)
(***************************************************************************)
\* C11: under every interleaving of a list call with sends on the same chat,
\* every message the list call turns from unread to read is among the messages
\* the call returns.
C11_MarkedWereReturned ==
  [][\A p \in Procs :
       GetMessages_Mark(p)
         => \A m \in messages :
              (~m.isRead /\ \E n \in messages' : n.id = m.id /\ n.isRead)
                => \E i \in DOMAIN lastResp'.msgs : lastResp'.msgs[i].id = m.id]_vars

\* C12: every message is stored unread, and no step (start, send, list of
\* messages, list of chats, unread count, delete) turns a read message back to
\* unread.
C12_ReadIsMonotonic ==
  [][/\ \A n \in messages' : n.id \notin MsgIdsOf(messages) => ~n.isRead
     /\ \A m \in messages, n \in messages' : m.id = n.id /\ m.isRead => n.isRead]_vars

\* C12 witness: a list call has run over a message that was read before it, and
\* the message is still stored as read
C12_Witness ==
  /\ lastResp.op = "list" /\ lastResp.status = 200
  /\ \E i \in DOMAIN lastResp.msgs :
       /\ lastResp.msgs[i].isRead
       /\ \E m \in messages : m.id = lastResp.msgs[i].id /\ m.isRead

\* C13: when the message of a send call is stored and the update of the chat's
\* lastMessage and updatedAt then fails, the call still answers 201 and the
\* message stays stored.
C13_CreatedDespiteUpdateFailure ==
  [][\A p \in Procs :
       SendMessage_UpdateFail(p)
         => /\ lastResp'.status = 201
            /\ proc[p].msg \in MsgIdsOf(messages')]_vars

\* C14: the messages of a list response are in non-decreasing createdAt order,
\* and a message whose insert completed before another's began comes before it,
\* also when both have the same createdAt (with one request at a time the ids
\* are in insert order).
C14_ListInInsertOrder ==
  lastResp.op = "list" /\ lastResp.status = 200
    => \A i, j \in DOMAIN lastResp.msgs :
         i < j => /\ lastResp.msgs[i].createdAt <= lastResp.msgs[j].createdAt
                  /\ lastResp.msgs[i].id < lastResp.msgs[j].id

\* C15: every stored message of a stored chat has the chat's two users as its
\* sender and receiver, sender and receiver differ, and the receiver a send call
\* has chosen is the user of the chat who is not the caller.
C15_MessageParticipants ==
  /\ \A m \in messages :
       \A c \in FindById(m.chat) :
         {m.sender, m.receiver} = {c.user1, c.user2} /\ m.sender # m.receiver
  /\ \A p \in Procs :
       proc[p].pc = "sm_create"
         => \A c \in FindById(proc[p].cid) :
              /\ proc[p].user \in {c.user1, c.user2}
              /\ {proc[p].rcv} = {c.user1, c.user2} \ {proc[p].user}

\* C15 witness: the first user of a chat has sent a message, stored with the
\* second user as receiver
C15_Witness ==
  \E m \in messages :
    \E c \in FindById(m.chat) : m.sender = c.user1 /\ m.receiver = c.user2

\* C16: a start, send, list or delete call answered 400, 401, 403 or 404 leaves
\* the stored chats and messages as they were.
C16_RefusalWritesNothing ==
  [][/\ lastResp'.op \in {"start", "send", "list", "delete"}
     /\ lastResp'.status \in {400, 401, 403, 404}
     => chats' = chats /\ messages' = messages]_vars

\* C16 witness: a delete call was refused with 403 and the chat's messages,
\* one of them read, are stored
C16_Witness ==
  /\ lastResp.op = "delete" /\ lastResp.status = 403
  /\ \E c \in chats : \E m \in MessagesOf(c.id) : m.isRead

\* C17: a send call of a participant on a stored chat is refused with 400 and
\* stores nothing when the trimmed text is empty or longer than 2000, and is
\* otherwise admitted, stores the trimmed text and answers 201.
C17_TextBounds ==
  [][\A p \in Procs :
       /\ proc[p].pc = "idle" /\ (lastResp'.op = "send" \/ proc'[p].pc = "sm_create")
            => \A u \in Users, cid \in ChatIds, text \in Texts :
                 u \in UsersOf(cid) /\ SendMessage_Find(p, u, cid, text, TextBounds)
                   => IF BadText(text)
                        THEN /\ lastResp'.status = 400
                             /\ proc' = proc /\ messages' = messages
                        ELSE proc'[p].pc = "sm_create" /\ proc'[p].text = Trim(text)
       /\ SendMessage_Create(p, TextBounds)
            => \E m \in messages' :
                 /\ m.id \notin MsgIdsOf(messages) /\ m.id = proc'[p].msg
                 /\ m.text = proc[p].text
                 /\ m.text.lead = 0 /\ m.text.trail = 0
                 /\ m.text.body \in 1..MaxTextLength
       /\ SendMessage_Update(p, TextBounds)
            => /\ lastResp'.status = 201
               /\ \E m \in messages : m.id = proc[p].msg /\ lastResp'.msgs[1].text = m.text]_vars

\* C17 witness: a text of 2000 characters between blanks is stored trimmed, and
\* a send with a longer text was refused
C17_Witness ==
  /\ \E m \in messages : m.text = [lead |-> 0, body |-> MaxTextLength, trail |-> 0]
  /\ lastResp.op = "send" /\ lastResp.status = 400
  /\ lastResp.message = "Message text cannot exceed 2000 characters"

\* the message a send of the other user of chat c to u would store next
NextMessageTo(c, u) ==
  NewMessage(nextMsgId, c.id, CHOOSE v \in {c.user1, c.user2} : v # u, u,
             [lead |-> 0, body |-> 1, trail |-> 0], now)

Others(ms, m) == {n \in ms : n.id # m.id}

\* C18 as stated: for a stored chat c, its user u and a new message m to u,
\* mark-read of (c, u) followed by the insert of m gives the same messages, m
\* included, as the insert of m followed by mark-read of (c, u); and two
\* mark-reads give the same messages in either order.
C18_MarkReadCommutesWithAppend ==
  \A c \in chats : \A u \in {c.user1, c.user2} :
    LET m == NextMessageTo(c, u)
    IN /\ CreateMessage(MarkReadOf(messages, c.id, u), m)
            = MarkReadOf(CreateMessage(messages, m), c.id, u)
       /\ \A d \in chats : \A v \in {d.user1, d.user2} :
            MarkReadOf(MarkReadOf(messages, c.id, u), d.id, v)
              = MarkReadOf(MarkReadOf(messages, d.id, v), c.id, u)

\* C18 amended: the two orders give the same messages except for m itself, which
\* is unread when it is inserted after the mark-read and read when inserted
\* before it; the insert of a message to the other user of c commutes with the
\* mark-read of (c, u) altogether; and two mark-reads give the same messages in
\* either order.
C18_MarkReadCommutesExceptNew ==
  \A c \in chats : \A u \in {c.user1, c.user2} :
    LET m == NextMessageTo(c, u)
        markFirst == CreateMessage(MarkReadOf(messages, c.id, u), m)
        appendFirst == MarkReadOf(CreateMessage(messages, m), c.id, u)
    IN /\ Others(markFirst, m) = Others(appendFirst, m)
       /\ \A n \in markFirst : n.id = m.id => ~n.isRead
       /\ \A n \in appendFirst : n.id = m.id => n.isRead
       /\ \E n \in markFirst : n.id = m.id
       /\ \A v \in {c.user1, c.user2} \ {u} :
            CreateMessage(MarkReadOf(messages, c.id, u), NextMessageTo(c, v))
              = MarkReadOf(CreateMessage(messages, NextMessageTo(c, v)), c.id, u)
       /\ \A d \in chats : \A v \in {d.user1, d.user2} :
            MarkReadOf(MarkReadOf(messages, c.id, u), d.id, v)
              = MarkReadOf(MarkReadOf(messages, d.id, v), c.id, u)

\* C18 witness: a list call has marked a message of a chat as read while a
\* message to the other user of the chat is stored unread
C18_Witness ==
  /\ lastResp.op = "list" /\ lastResp.status = 200
  /\ \E m, n \in messages :
       /\ m.chat = n.chat /\ m.receiver = n.sender
       /\ m.isRead /\ ~n.isRead
       /\ \E i \in DOMAIN lastResp.msgs :
            lastResp.msgs[i].id = m.id /\ ~lastResp.msgs[i].isRead

\* C19: the mark-read of a list call, applied again to the messages it leaves,
\* changes nothing; so a list call of u on a chat that has no unread message to
\* u (as after u's previous list call with no send in between) leaves the
\* messages as they were.
C19_MarkReadIdempotent ==
  [][\A p \in Procs :
       GetMessages_Mark(p)
         => /\ MarkReadOf(messages', proc[p].cid, proc[p].user) = messages'
            /\ MarkReadOf(messages, proc[p].cid, proc[p].user) = messages
                 => messages' = messages]_vars

\* C19 witness: a list call returned the two messages of a chat, one to each
\* user, both read before the call: each user has listed the chat before, and
\* this call repeats one of them
C19_Witness ==
  /\ lastResp.op = "list" /\ lastResp.status = 200
  /\ \E i, j \in DOMAIN lastResp.msgs :
       /\ lastResp.msgs[i].receiver = lastResp.msgs[j].sender
       /\ lastResp.msgs[i].isRead /\ lastResp.msgs[j].isRead
  /\ \A m \in messages : m.isRead

\* no send or delete call on chat cid is between its steps
Quiet(cid) == \A p \in Procs : proc[p].pc # "idle" => proc[p].cid # cid

\* C20 as stated: when no send call on a chat is in progress, its lastMessage is
\* null if the chat holds no message and otherwise the message inserted last,
\* whatever the interleaving of the sends.
C20_LastMessageIsNewest ==
  \A c \in chats :
    Quiet(c.id)
      => IF MessagesOf(c.id) = {} THEN c.lastMessage = NoId
         ELSE \A m \in MessagesOf(c.id) : m.id <= c.lastMessage

\* C20 amended: a chat is stored with lastMessage null; lastMessage changes only
\* when a send call on the chat applies its update, and then refers to the
\* message that call inserted (the last update applied wins, also when a later
\* message is stored already).
C20_LastWriterWins ==
  [][/\ \A d \in chats' :
          (\A c \in chats : c.id # d.id) => d.lastMessage = NoId
     /\ \A c \in chats, d \in chats' :
          c.id = d.id /\ c.lastMessage # d.lastMessage
            => \E p \in Procs : /\ proc[p].pc = "sm_update" /\ proc'[p].pc = "idle"
                                /\ proc[p].cid = c.id /\ proc[p].msg = d.lastMessage
                                /\ lastResp'.status = 201
     /\ \A p \in Procs :
          SendMessage_Update(p, ConcBounds)
            => \A d \in chats' : d.id = proc[p].cid => d.lastMessage = proc[p].msg]_vars

\* C20 witness: two sends on a chat have interleaved and both have answered; the
\* update applied last is that of the older message, which lastMessage refers to
C20_Witness ==
  /\ \A p \in Procs : proc[p].pc = "idle"
  /\ lastResp.op = "send" /\ lastResp.status = 201
  /\ \E c \in chats :
       /\ c.lastMessage # NoId
       /\ lastResp.msgs[1].id = c.lastMessage
       /\ \E m \in MessagesOf(c.id) : m.id > c.lastMessage

(***************************************************************************)
(* Properties of the chat list.                                            *)
(***************************************************************************)
\* the stored message inserted last
NewestMessage == CHOOSE m \in messages : \A n \in messages : n.id <= m.id

\* C21: the chats read for the chat list of u are exactly the stored chats u is
\* a user of, each once, in non-increasing updatedAt order, the chat of the
\* message inserted last before every other chat of u that holds a message; and
\* the response lists the chats read, in the order read.
C21_ListedByRecency ==
  [][/\ \A u \in Users :
          GetChats_Find(1, u, ListBounds)
            => LET r == proc'[1].list
               IN /\ {r[i] : i \in DOMAIN r} = {c \in chats : u \in UsersOf(c.id)}
                  /\ \A i, j \in DOMAIN r : i < j => r[i].id # r[j].id
                  /\ \A i, j \in DOMAIN r : i < j => r[i].updatedAt >= r[j].updatedAt
                  /\ messages # {}
                       => \A i, j \in DOMAIN r :
                            /\ r[i].id = NewestMessage.chat
                            /\ r[j].id # r[i].id /\ MessagesOf(r[j].id) # {}
                            => i < j
     /\ GetChats_Count(1)
          => /\ DOMAIN lastResp'.chats = DOMAIN proc[1].list
             /\ \A i \in DOMAIN proc[1].list :
                  /\ lastResp'.chats[i].id = proc[1].list[i].id
                  /\ lastResp'.chats[i].updatedAt = proc[1].list[i].updatedAt]_vars

RECURSIVE SumUnread(_)
SumUnread(r) == IF r = <<>> THEN 0 ELSE Head(r).unreadCount + SumUnread(Tail(r))

\* C22: in the chat list answered to u, the unreadCount of each chat is the
\* number of stored unread messages of that chat to u, totalUnread is the sum of
\* the unreadCount values listed, and totalUnread is what the unread count
\* answers for u in the same state.
C22_UnreadMerge ==
  [][GetChats_Count(1)
       => LET u == proc[1].user
              r == lastResp'.chats
          IN /\ \A i \in DOMAIN r :
                  r[i].unreadCount
                    = Cardinality({m \in Unread(messages, u) : m.chat = r[i].id})
             /\ lastResp'.count = SumUnread(r)
             /\ lastResp'.count = CountDocuments(u)]_vars

(***************************************************************************)
(* Frame properties of the request handlers.                               *)
(***************************************************************************)
\* C23: a stored chat keeps its participants, user1 and user2 in every step of
\* the request handlers, and its lastMessage and updatedAt change only in the
\* update step of a send call on that chat (not in start, list of messages, list
\* of chats or unread count).
C23_ChatMutatedBySendOnly ==
  [][\A c \in chats, d \in chats' :
       c.id = d.id
         => /\ d.participants = c.participants
            /\ d.user1 = c.user1 /\ d.user2 = c.user2
            /\ d.lastMessage # c.lastMessage \/ d.updatedAt # c.updatedAt
                 => /\ lastResp'.op = "send"
                    /\ \E p \in Procs : proc[p].pc = "sm_update" /\ proc[p].cid = c.id]_vars

\* C23 witness: a list call has answered with the messages of a chat whose
\* lastMessage a send has set, while a chat started later is stored
C23_Witness ==
  /\ lastResp.op = "list" /\ lastResp.status = 200 /\ lastResp.msgs # <<>>
  /\ \E c, d \in chats :
       /\ c.lastMessage # NoId /\ d.id > c.id
       /\ \E i \in DOMAIN lastResp.msgs : lastResp.msgs[i].chat = c.id

\* C24: a stored message keeps its chat, sender, receiver, text and createdAt in
\* every step, and leaves the collection only in the deleteMany step of a delete
\* call on its own chat.
C24_LedgerImmutable ==
  [][\A m \in messages :
       \/ \E n \in messages' :
            /\ n.id = m.id /\ n.chat = m.chat /\ n.sender = m.sender
            /\ n.receiver = m.receiver /\ n.text = m.text /\ n.createdAt = m.createdAt
       \/ /\ m.id \notin MsgIdsOf(messages')
          /\ \E p \in Procs : proc[p].pc = "dc_msgs" /\ proc[p].cid = m.chat
          /\ \A n \in messages : n.chat # m.chat => n \in messages']_vars

\* C24 witness: a delete call has removed a chat with its message, and a message
\* of another chat, read meanwhile, is still stored
C24_Witness ==
  /\ lastResp.op = "delete" /\ lastResp.status = 200 /\ lastResp.count > 0
  /\ \E m \in messages : m.isRead /\ m.chat \notin deleted

(***************************************************************************)
(* Properties of the start policy and of the maintenance scripts.          *)
(***************************************************************************)
\* C25: every start call with a valid receiver other than the caller stores
\* exactly one more chat, under an id no stored chat has, and answers 201 'Chat
\* created', whatever chats the pair has already.
C25_AlwaysCreates ==
  [][\A r \in CrossRequests :
       StartChat(r[1], r[2], SeqBounds)
         => /\ lastResp'.status = 201 /\ lastResp'.message = "Chat created"
            /\ \E d \in chats' :
                 /\ \A c \in chats : c.id # d.id
                 /\ chats' = chats \cup {d}
                 /\ lastResp'.chat = d.id
                 /\ {d.user1, d.user2} = {r[1], r[3]}]_vars

(***************************************************************************)
(* Properties of the identity step.                                        *)
(***************************************************************************)
\* the requests C26 is about: no bearer token, an expired or otherwise invalid
\* token, or a token of a user who is no longer stored
Unauthenticated ==
  {cred \in Credentials :
     \/ cred.scheme # "Bearer" \/ cred.token # "valid"
     \/ cred.id \notin Users}

\* a step of a chat route taken with cred and secret
RouteStep(cred, secret) ==
  \/ Route_UnreadCount(cred, secret)
  \/ Route_GetChats(cred, secret, AuthBounds)
  \/ Route_StartChat(cred, secret, UserB, AuthBounds)
  \/ \E cid \in 1..AuthBounds.chats :
       \/ Route_GetMessages(cred, secret, cid, AuthBounds)
       \/ Route_SendMessage(cred, secret, cid,
                            [lead |-> 0, body |-> 1, trail |-> 0], AuthBounds)
       \/ Route_DeleteChat(cred, secret, cid, AuthBounds)

\* the response came from protect and no handler step ran
EndedByProtect ==
  /\ lastResp'.op = "auth" /\ proc' = proc
  /\ chats' = chats /\ messages' = messages

\* C26 as stated: on every chat route, a request without bearer token, with an
\* invalid or expired token or with the token of a user no longer stored is
\* answered 401 by protect, no handler step runs and the stored chats and
\* messages stay as they were.
C26_UnauthenticatedRefused ==
  [][\A cred \in Unauthenticated, secret \in BOOLEAN :
       RouteStep(cred, secret) => EndedByProtect /\ lastResp'.status = 401]_vars

\* C26 amended: such a request is ended by protect, with 401 when it carries no
\* bearer token or when JWT_SECRET is configured, and with the 500 of the JWT
\* configuration error when it carries a token and JWT_SECRET is not
\* configured; no handler step runs and the stored chats and messages stay as
\* they were.
C26_RefusedByProtect ==
  [][\A cred \in Unauthenticated, secret \in BOOLEAN :
       RouteStep(cred, secret)
         => /\ EndedByProtect
            /\ lastResp'.status
                 = IF cred.scheme = "Bearer" /\ cred.token # "none" /\ ~secret
                     THEN JwtConfigStatus ELSE 401]_vars

\* C26 witness: protect has refused a token (invalid, expired or of a user no
\* longer stored) while a chat and a message are stored
C26_Witness ==
  /\ lastResp.op = "auth" /\ lastResp.status = 401
  /\ lastResp.message = "Token invalid or expired"
  /\ chats # {} /\ messages # {}

\* the users whose documents are embedded in response r, the chats being cs:
\* the populated participants of a created or listed chat, the populated
\* sender of a listed or created message
ResponseUsers(r, cs) ==
  IF r.op = "start" /\ r.status = 201
    THEN UNION {Range(c.participants) : c \in {x \in cs : x.id = r.chat}}
  ELSE IF r.op = "chats" /\ r.status = 200
    THEN UNION {Range(c.participants) :
                  c \in {x \in cs : \E i \in DOMAIN r.chats : r.chats[i].id = x.id}}
  ELSE IF r.op \in {"list", "send"} /\ r.status \in {200, 201}
    THEN {r.msgs[i].sender : i \in DOMAIN r.msgs}
  ELSE {}

\* the user documents as response r carries them
ResponseUserDocs(r, cs) ==
  {Populate(UserDoc(u, reset)) : u \in ResponseUsers(r, cs) \cap Users,
                                 reset \in BOOLEAN}

WebhookBounded ==
  /\ hook.fetches <= MaxAttempts
  /\ hook.pc = "fetch" =>
       hook.elapsed <= AbortSeconds /\ hook.attempt \in hook.timers
  /\ hook.pc = "returned" /\ hook.result.status = NoStatus =>
       /\ ~hook.result.ok
       /\ hook.fn = "sendToMakeWebhook" => hook.result.error # Null

\* C28: a webhook call always returns, after at most 2 fetch attempts each
\* bounded by the 8-second abort, and a call no attempt of which obtained a
\* response returns ok = false with error set instead of throwing
C28_WebhookDegrades ==
  /\ []WebhookBounded
  /\ (hook.pc \in {"fetch", "text", "backoff"}) ~> (hook.pc = "returned")

CleanupKeepsSoundChats ==
  [][Cleanup =>
       /\ \A c \in chats' :
            c.user1 # <<>> /\ c.user2 # <<>> /\ Len(c.participants) = 2
       /\ \A c \in chats :
            c.user1 # <<>> /\ c.user2 # <<>> /\ Len(c.participants) = 2
              => c \in chats']_vars

\* C30: after cleanupBrokenChats has completed without error, no unique
\* index on user1, user2 or participants remains, no chat with a null user1
\* or user2 or with other than two participants remains, and every chat
\* with two participants and user1 and user2 set is stored unchanged
C30_CleanupResult ==
  [][Cleanup =>
       /\ WrongIndexes(indexes') = {}
       /\ \A c \in chats' :
            c.user1 # <<>> /\ c.user2 # <<>> /\ Len(c.participants) = 2
       /\ \A c \in chats :
            c.user1 # <<>> /\ c.user2 # <<>> /\ Len(c.participants) = 2
              => c \in chats']_vars

(***************************************************************************)
(* Frame properties of the list and delete calls.                          *)
(***************************************************************************)
\* process p takes a step of a list-messages call
ListStep(p) ==
  \/ proc[p].pc = "idle" /\ (proc'[p].pc = "gm_list" \/ lastResp'.op = "list")
  \/ proc[p].pc \in {"gm_list", "gm_mark"} /\ proc'[p].pc # proc[p].pc

\* C31: a list-messages call on chat c by user u changes isRead only on
\* messages of c whose receiver is u: the messages of c that u sent and the
\* messages of every other chat, chats of the same two users included, are
\* stored as they were, and no message is added or removed
C31_MarkReadFrame ==
  [][\A p \in Procs :
       ListStep(p) /\ (\A q \in Procs \ {p} : proc'[q] = proc[q]) =>
         /\ MsgIdsOf(messages') = MsgIdsOf(messages)
         /\ \A m \in messages :
              \/ m \in messages'
              \/ /\ proc[p].pc = "gm_mark"
                 /\ m.chat = proc[p].cid /\ m.receiver = proc[p].user
                 /\ [m EXCEPT !.isRead = TRUE] \in messages']_vars

\* C31 witness: a list call has marked a message of one chat while an unread
\* message to the same user in another chat of the same two users stays unread
C31_Witness ==
  /\ lastResp.op = "list" /\ lastResp.status = 200
  /\ \E i \in DOMAIN lastResp.msgs, m, n \in messages, c, d \in chats :
       /\ m.id = lastResp.msgs[i].id /\ ~lastResp.msgs[i].isRead /\ m.isRead
       /\ n.chat # m.chat /\ n.receiver = m.receiver /\ ~n.isRead
       /\ c.id = m.chat /\ d.id = n.chat
       /\ c.user1 = d.user1 /\ c.user2 = d.user2

\* C32: a delete call on chat c removes only the messages of c (deleteMany
\* step) and only chat c (findByIdAndDelete step): every other chat, chats of
\* the same two users included, and every message of another chat is stored
\* as it was; the messagesDeleted it answers is the number of messages of c
\* stored just before the deleteMany step
C32_DeleteFrame ==
  [][\A p \in Procs :
       /\ proc[p].pc = "idle"
          /\ (proc'[p].pc = "dc_msgs" \/ (lastResp'.op = "delete" /\ proc' = proc))
            => chats' = chats /\ messages' = messages
       /\ proc[p].pc = "dc_msgs" /\ proc'[p].pc = "dc_chat" =>
            /\ chats' = chats
            /\ messages' = {m \in messages : m.chat # proc[p].cid}
            /\ proc'[p].n = Cardinality({m \in messages : m.chat = proc[p].cid})
       /\ proc[p].pc = "dc_chat" /\ proc'[p].pc = "idle" =>
            /\ messages' = messages
            /\ chats' = {c \in chats : c.id # proc[p].cid}
            /\ lastResp'.status = 200 /\ lastResp'.count = proc[p].n]_vars

\* C32 witness: a delete call has answered a count of messages above zero
\* while another chat and a message of it are stored
C32_Witness ==
  /\ lastResp.op = "delete" /\ lastResp.status = 200 /\ lastResp.count > 0
  /\ \E c \in chats, m \in messages : m.chat = c.id /\ c.id \notin deleted

\* the errors the retry rule names: the abort of the timeout, a network
\* failure, ECONNREFUSED, ETIMEDOUT
RetryableByRule ==
  {e \in FetchErrors \cup {AbortError} :
     \/ e = AbortError
     \/ e.message \in {<<"fetch", "failed">>, <<"network", "down">>}
     \/ e.code \in {"ECONNREFUSED", "ETIMEDOUT"}}

\* C33: sendToMakeWebhook starts a second fetch only after a first attempt
\* that threw an error of the retry rule; a first attempt that obtained a
\* response, whatever its status, or threw another error is followed by no
\* second fetch, and the outcome of the second attempt is returned, with no
\* third fetch
C33_RetryRule ==
  [][hook.fn = "sendToMakeWebhook" /\ hook.pc \notin {"idle", "returned"} =>
       /\ hook'.fetches <= MaxAttempts
       /\ hook'.fetches > hook.fetches =>
            /\ hook.fetches = 1 /\ hook.pc = "backoff"
            /\ hook.lastError \in RetryableByRule
       /\ hook.pc = "fetch" /\ hook'.pc # "fetch" /\ hook.attempt = 0 =>
            \/ hook'.pc = "text" /\ hook'.status \in HookStatuses
            \/ hook'.pc = "backoff" /\ hook'.lastError \in RetryableByRule
            \/ /\ hook'.pc = "returned" /\ hook'.lastError \notin RetryableByRule
               /\ ~hook'.result.ok /\ hook'.result.error # Null
       /\ hook.pc = "fetch" /\ hook'.pc # "fetch" /\ hook.attempt = 1 =>
            \/ hook'.pc = "text"
            \/ /\ hook'.pc = "returned" /\ ~hook'.result.ok
               /\ hook'.result.error = MessageOf(hook'.lastError)
       /\ hook.pc = "text" =>
            /\ hook'.pc \in {"text", "returned"} /\ hook'.fetches = hook.fetches
            /\ hook'.pc = "returned" => hook'.result.status = hook.status]_vars

\* C33 witness: a call has returned the response of its second attempt
C33_Witness ==
  /\ hook.fn = "sendToMakeWebhook" /\ hook.pc = "returned"
  /\ hook.fetches = 2 /\ hook.lastError \in RetryableByRule
  /\ hook.result.status \in HookStatuses

\* C40: whenever sendToMakeWebhook or the older sendForgotPasswordToMake has
\* returned, and between two attempts, no abort timer of an attempt made is
\* still armed
C40_NoTimerOutlivesCall ==
  hook.pc \in {"returned", "backoff"} => hook.timers = {}

\* C40 witness: a call has returned after two attempts, the second of which
\* ended by a rejected fetch
C40_Witness ==
  /\ hook.pc = "returned" /\ hook.fetches = 2 /\ hook.timers = {}
  /\ hook.result.status = NoStatus

(***************************************************************************)
(* Properties of ensureChatIndexes.                                        *)
(***************************************************************************)
\* C34 as stated: whatever its storage calls answer, a run of
\* ensureChatIndexes returns to its caller and leaves indexes that a second
\* run leaves as they are, without the old unique index on
\* {ad, participantsKey} and with the partial one
C34_EnsureIdempotent ==
  [][\A run \in Runs :
       EnsureChatIndexes(run) =>
         /\ lastResp' = NoResp
         /\ \A again \in Runs : EnsureResult(indexes', again) = indexes'
         /\ OldIndexes(indexes') = {} /\ PartialAdIndex \in indexes']_vars

\* C34, amended: every run returns to its caller and changes nothing but the
\* indexes on {ad, participantsKey}; a run whose storage calls are all
\* accepted leaves no old unique index and the partial one, and a second
\* such run leaves the indexes as they are
C34_EnsureIdempotentWhenAccepted ==
  [][\A run \in Runs :
       EnsureChatIndexes(run) =>
         /\ lastResp' = NoResp /\ chats' = chats
         /\ \A ix \in (indexes \ indexes') \cup (indexes' \ indexes) :
              ix.keys = <<"ad", "participantsKey">>
         /\ run = AllOk =>
              /\ OldIndexes(indexes') = {} /\ PartialAdIndex \in indexes'
              /\ EnsureResult(indexes', AllOk) = indexes']_vars

\* C34 witness: the partial index is there without the old one, beside the
\* indexes of the schema and a stored chat
C34_Witness ==
  /\ PartialAdIndex \in indexes /\ OldIndexes(indexes) = {}
  /\ Cardinality(indexes) > 1 /\ chats # {}

(***************************************************************************)
(* Properties of the user model's password hook.                           *)
(***************************************************************************)
\* C35: the password is hashed only when changed.  A save that the store
\* accepts leaves the stored password as it was when the document's
\* password path is not modified, and stores the hash of the document's
\* password, never the value itself nor a password as entered, when the
\* path is modified, which it is for every new document.
C35_HashedOnlyWhenChanged ==
  [][users'.result = "saved" /\ users' # users =>
       /\ users.doc.state = "new" => "password" \in users.doc.modified
       /\ "password" \notin users.doc.modified =>
            users'.stored.password = users.stored.password
       /\ "password" \in users.doc.modified =>
            /\ users'.stored.password = Hash(users.doc.password)
            /\ users'.stored.password # users.doc.password
            /\ users'.stored.password \notin Plaintexts]_vars

\* a document fetched with its stored hash had its name changed and was
\* saved: the stored password is still the one hash of the password entered
C35_Witness ==
  /\ users.result = "saved"
  /\ users.stored.name = <<"Bea">>
  /\ users.doc.password = Hash(<<"secret1">>)
  /\ users.stored.password = Hash(<<"secret1">>)

(***************************************************************************)
(* Membership: the listing and the participant check.                      *)
(***************************************************************************)
\* the chats getChats lists for u are those whose participants hold u
ListedAsChecked(c) ==
  /\ c.participants = <<c.user1, c.user2>>
  /\ \A u \in Users : c \in ChatsOfUser(u) <=> IsParticipant(c.participants, u)

SendStep(p) == proc[p].pc = "sm_create" /\ proc'[p].pc = "sm_update"

\* C37: a send changes exactly one unread count.  The step of a send by S on
\* conversation c that stores the message raises the unread count of the
\* other participant of c by one and leaves the unread count of S and of
\* every other user as it was; the rest of the call changes no count.
C37_SendRaisesOneCount ==
  [][\A p \in Procs :
       /\ SendStep(p) =>
            /\ proc[p].rcv # proc[p].user
            /\ \A c \in FindById(proc[p].cid) :
                 /\ IsParticipant(c.participants, proc[p].user)
                 /\ IsParticipant(c.participants, proc[p].rcv)
            /\ CountDocuments(proc[p].rcv)' = CountDocuments(proc[p].rcv) + 1
            /\ \A u \in Users \ {proc[p].rcv} :
                 CountDocuments(u)' = CountDocuments(u)
       /\ proc[p].pc = "sm_update" /\ proc'[p].pc = "idle" =>
            \A u \in Users : CountDocuments(u)' = CountDocuments(u)]_vars

\* a send by UserB on a chat with UserA is answered 201 while UserA has two
\* unread messages and UserB none
C37_Witness ==
  /\ lastResp.op = "send" /\ lastResp.status = 201
  /\ lastResp.msgs[1].sender = UserB
  /\ CountDocuments(UserA) = 2
  /\ CountDocuments(UserB) = 0

(***************************************************************************)
(* What a list call answers about isRead.                                  *)
(***************************************************************************)
\* C38: a list call reports the state before its own marking.  The messages
\* it answers are the stored messages of the chat as its find read them; its
\* mark step leaves those answered values alone, so a message addressed to the
\* caller and read unread is answered with isRead = false, and is stored with
\* isRead = true from that step on, which is what every later find of the
\* chat reads.
C38_ListReportsPreReadState ==
  [][\A p \in Procs :
       /\ proc[p].pc = "gm_list" /\ proc'[p].pc = "gm_mark" =>
            /\ Range(proc'[p].msgs) = MessagesOf(proc[p].cid)
            /\ Len(proc'[p].msgs) = Cardinality(MessagesOf(proc[p].cid))
       /\ proc[p].pc = "gm_mark" /\ proc'[p].pc = "idle" =>
            /\ lastResp'.op = "list" /\ lastResp'.msgs = proc[p].msgs
            /\ \A m \in messages' :
                 m.chat = proc[p].cid /\ m.receiver = proc[p].user => m.isRead
       /\ \A m \in messages, n \in messages' :
            m.id = n.id /\ m.isRead => n.isRead]_vars

\* a list call answers a message addressed to UserB as read: with one call
\* at a time, an earlier list call of UserB answered it as unread and marked it
C38_Witness ==
  /\ lastResp.op = "list" /\ lastResp.status = 200
  /\ \E i \in DOMAIN lastResp.msgs :
       /\ lastResp.msgs[i].receiver = UserB
       /\ lastResp.msgs[i].isRead

(***************************************************************************)
(* The merge of duplicate chats by the migration.                          *)
(***************************************************************************)
\* the ids of the chats cs
ChatIdsOf(cs) == {c.id : c \in cs}

\* C39: after migrateChatsToUserPair has merged the duplicate chats of a
\* pair, the lastMessage of the chat kept is null or the id of a stored
\* message of that chat, its updatedAt is not earlier than it was before the
\* migration, and no stored message is of a chat the migration deleted.
C39_PointerInsideConversation ==
  [][Migrate /\ lastResp' = NoResp =>
       /\ \A k \in chats' :
            \/ k.lastMessage = NoId
            \/ \E m \in messages' : m.id = k.lastMessage /\ m.chat = k.id
       /\ \A k \in chats', o \in chats : k.id = o.id => k.updatedAt >= o.updatedAt
       /\ \A m \in messages' :
            m.chat \notin ChatIdsOf(chats) \ ChatIdsOf(chats')]_vars

====
